---- MODULE Spec2Model ----
(***************************************************************************)
(* Model of the finite-volume core of idefix: the TVDLF Riemann solver     *)
(* sweep (src/src/hydro/HDsolvers/tvdlfHD.hpp) and the geometry            *)
(* precomputation (src/src/dataBlock/makeGeometry.cpp).                    *)
(*                                                                         *)
(* Numbers of type `real` are modelled as exact rationals <<n, d>> with    *)
(* d > 0 in lowest terms; <<0, 0>> stands for a non-finite value (NaN or   *)
(* Inf), which every operation propagates.  SQRT, sin and cos round to a   *)
(* fixed grid, as the floating-point library functions round.              *)
(***************************************************************************)
EXTENDS Integers, Sequences, FiniteSets, TLC

(***************************************************************************)
(* Rational arithmetic.                                                    *)
(***************************************************************************)
RECURSIVE GCD(_, _)
GCD(a, b) == IF b = 0 THEN a ELSE GCD(b, a % b)

IAbs(a) == IF a < 0 THEN -a ELSE a

NaN == <<0, 0>>

IsFinite(q) == q[2] # 0

\* n/d in lowest terms, d # 0
Rat(n, d) ==
    LET g == GCD(IAbs(n), IAbs(d))
        s == IF d < 0 THEN -1 ELSE 1
    IN  <<s * (n \div g), s * (d \div g)>>

R(n) == <<n, 1>>

ZERO_F == R(0)
ONE_F == R(1)
HALF_F == Rat(1, 2)

RAdd(p, q) ==
    IF ~IsFinite(p) \/ ~IsFinite(q) THEN NaN
    ELSE LET g == GCD(p[2], q[2])
         IN  Rat(p[1] * (q[2] \div g) + q[1] * (p[2] \div g), p[2] * (q[2] \div g))

RNeg(p) == IF IsFinite(p) THEN <<-p[1], p[2]>> ELSE NaN

RSub(p, q) == RAdd(p, RNeg(q))

RMul(p, q) ==
    IF ~IsFinite(p) \/ ~IsFinite(q) THEN NaN
    ELSE LET g1 == GCD(IAbs(p[1]), q[2])
             g2 == GCD(IAbs(q[1]), p[2])
             h1 == IF g1 = 0 THEN 1 ELSE g1
             h2 == IF g2 = 0 THEN 1 ELSE g2
         IN  Rat((p[1] \div h1) * (q[1] \div h2), (p[2] \div h2) * (q[2] \div h1))

RDiv(p, q) ==
    IF ~IsFinite(p) \/ ~IsFinite(q) \/ q[1] = 0 THEN NaN
    ELSE RMul(p, Rat(q[2], q[1]))

\* p < q and p <= q on finite values; any comparison with NaN is false
RLt(p, q) == IsFinite(p) /\ IsFinite(q) /\ p[1] * q[2] < q[1] * p[2]
RLe(p, q) == IsFinite(p) /\ IsFinite(q) /\ p[1] * q[2] <= q[1] * p[2]

FABS(p) == IF IsFinite(p) THEN <<IAbs(p[1]), p[2]>> ELSE NaN

FMAX(p, q) ==
    IF ~IsFinite(p) THEN q
    ELSE IF ~IsFinite(q) THEN p
    ELSE IF RLt(p, q) THEN q ELSE p

\* floor of the square root of a natural number, by bisection of lo .. hi
RECURSIVE ISqrtIn(_, _, _)
ISqrtIn(n, lo, hi) ==
    IF lo >= hi THEN lo
    ELSE LET mid == (lo + hi + 1) \div 2
         IN  IF mid * mid <= n THEN ISqrtIn(n, mid, hi) ELSE ISqrtIn(n, lo, mid - 1)
ISqrt(n) == ISqrtIn(n, 0, n)

\* denominators of the grid SQRT rounds to
SqrtDen == 60

\* SQRT rounds down to a multiple of 1/SqrtDen; a negative operand gives NaN
SQRT(p) ==
    IF ~IsFinite(p) \/ p[1] < 0 THEN NaN
    ELSE Rat(ISqrt((p[1] * SqrtDen * SqrtDen) \div p[2]), SqrtDen)

(***************************************************************************)
(* Directions and the components of a state vector.                        *)
(***************************************************************************)
IDIR == 0
JDIR == 1
KDIR == 2

RHO == 0
VX1 == 1
VX2 == 2
VX3 == 3
PRS == 4
MX1 == VX1
MX2 == VX2
MX3 == VX3
ENG == PRS

Dirs == {IDIR, JDIR, KDIR}

VARIABLES
    DIMENSIONS,     \* number of active axes (build-time)
    HAVE_ENERGY,    \* whether an energy equation is solved (build-time)
    gamma,          \* polytropic exponent
    C2Iso,          \* squared isothermal sound speed
    np_int,         \* [Dirs -> number of interior cells]
    nghost,         \* [Dirs -> number of ghost cells on each side]
    DIR,            \* direction of the current sweep
    PrimL, PrimR,   \* [cell -> primitive state vector]
    FluxRiemann,    \* [cell -> flux vector]
    cMax,           \* [cell -> wave speed]
    tpc,            \* [face-task -> "idle" | "read" | "done"]
    tvL, tvR,       \* the primitive states a face-task has read
    accessLog,      \* every array access made: <<task, "r"|"w", array, index>>
    nWrites         \* [cell -> number of stores to Flux(:,cell) and to cMax(cell)]

sweepVars == <<DIR, PrimL, PrimR, FluxRiemann, cMax, tpc, tvL, tvR, accessLog, nWrites>>
gridVars == <<DIMENSIONS, HAVE_ENERGY, gamma, C2Iso, np_int, nghost>>

VARIABLES
    GEOMETRY,       \* "CARTESIAN" | "CYLINDRICAL" | "POLAR" | "SPHERICAL" (build-time)
    x, dx, xl, xr,  \* [Dirs -> [cell index -> centre, spacing, left face, right face]]
    dV,             \* [cell -> volume]
    A,              \* [Dirs -> [face -> area]]
    xgc,            \* [Dirs -> [cell index -> geometrical centre]]
    rt, sm, s, dmu, \* spherical auxiliary arrays
    gpc             \* the kernel MakeGeometry runs next

geomVars == <<GEOMETRY, x, dx, xl, xr, dV, A, xgc, rt, sm, s, dmu, gpc>>

VARIABLES
    grid,           \* the radial axis of the whole domain: [nproc, xl, xr]
    rank,           \* the subdomain whose data block is being built
    Aleft           \* the x1 face areas of the subdomain built before

joinVars == <<grid, rank, Aleft>>

VARIABLES
    WITH_MPI,           \* whether the build is parallel (build-time)
    argv,               \* the command line, program name first
    dirFiles,           \* the names readdir returns for the current directory
    fileLines,          \* the lines of the input file
    inputParameters,    \* [block name -> [parameter name -> sequence of values]]
    inputFileName, restartRequested, restartFileNumber,
    haveBlock, blockName, paramName,    \* locals of the constructor
    lineNo,             \* lines read so far
    ipc,                \* "idle" | "ParseCommandLine" | "getline" | "done" | "error"
    errorMsg,           \* what was raised when ipc = "error"
    ceArgs, ceResult    \* the last CheckEntry call and what it returned

inputVars ==
    <<WITH_MPI, argv, dirFiles, fileLines, inputParameters, inputFileName,
      restartRequested, restartFileNumber, haveBlock, blockName, paramName, lineNo, ipc,
      errorMsg, ceArgs, ceResult>>

VARIABLES
    abortRequested,     \* [process -> the static flag]
    apc,                \* [process -> "run" | "allreduce" | "returned"]
    abortValue,         \* [process -> what it contributes to the reduction]
    returnValue,        \* [process -> what its last CheckForAbort returned]
    signalled,          \* history: the processes whose handler has run
    enteredWith,        \* history: [process -> signalled when it entered its call]
    nCalls              \* [process -> calls of CheckForAbort made]

abortVars == <<abortRequested, apc, abortValue, returnValue, signalled, enteredWith, nCalls>>

VARIABLES
    nproc,              \* [direction -> number of subdomains along it] (mygrid->nproc)
    nodeView, view,     \* [process -> the subarray type Vtk::Init committed, <<>> if none]
    offset,             \* [process -> Vtk::offset]
    vtkFileNumber,      \* [process -> Vtk::vtkFileNumber]
    vpc,                \* [process -> -1 before Vtk::Init, 0 between two Writes, else
                        \* the position in WriteProgram of the next call of its Write]
    vlog                \* history: [process -> the calls of its Write so far, each with
                        \* the bytes it put in the file and the offset it left]

vtkVars == <<nproc, nodeView, view, offset, vtkFileNumber, vpc, vlog>>
ctlVars == <<inputVars, abortVars, vtkVars>>
vars == <<gridVars, sweepVars, geomVars, joinVars, ctlVars>>

\* the domain is not decomposed
JoinIdle == grid = [nproc |-> 1, xl |-> <<>>, xr |-> <<>>] /\ rank = 0 /\ Aleft = <<>>

\* no Input object is under construction
InputIdle ==
    /\ WITH_MPI = FALSE
    /\ argv = <<>> /\ dirFiles = <<>> /\ fileLines = <<>>
    /\ inputParameters = <<>>
    /\ inputFileName = <<>> /\ restartRequested = FALSE /\ restartFileNumber = 0
    /\ haveBlock = FALSE /\ blockName = <<>> /\ paramName = <<>>
    /\ lineNo = 0 /\ ipc = "idle" /\ errorMsg = ""
    /\ ceArgs = <<>> /\ ceResult = 0

\* no process takes part
AbortIdle ==
    /\ abortRequested = <<>> /\ apc = <<>> /\ abortValue = <<>> /\ returnValue = <<>>
    /\ signalled = {} /\ enteredWith = <<>> /\ nCalls = <<>>

\* no Vtk object exists
VtkIdle ==
    /\ nproc = <<>> /\ nodeView = <<>> /\ view = <<>> /\ offset = <<>>
    /\ vtkFileNumber = <<>> /\ vpc = <<>> /\ vlog = <<>>

CtlIdle == InputIdle /\ AbortIdle /\ VtkIdle

NVAR == IF HAVE_ENERGY THEN 5 ELSE 4
Comps == 0 .. (NVAR - 1)

\* the extents of a data block
np_tot(d) == np_int[d] + 2 * nghost[d]
beg(d) == nghost[d]
end(d) == nghost[d] + np_int[d]

AllCells ==
    {<<k, j, i>> : k \in 0 .. (np_tot(KDIR) - 1), j \in 0 .. (np_tot(JDIR) - 1),
                   i \in 0 .. (np_tot(IDIR) - 1)}

(***************************************************************************)
(* The equation of state: conservative variables and physical flux.        *)
(***************************************************************************)
K_PrimToCons(v, gamma_m1) ==
    [nv \in Comps |->
        IF nv = RHO THEN v[RHO]
        ELSE IF nv \in {MX1, MX2, MX3} THEN RMul(v[RHO], v[nv])
        ELSE RAdd(RDiv(v[PRS], gamma_m1),
                  RMul(RMul(HALF_F, v[RHO]),
                       RAdd(RMul(v[VX1], v[VX1]),
                            RAdd(RMul(v[VX2], v[VX2]), RMul(v[VX3], v[VX3])))))]

K_Flux(v, u, c2, Xn) ==
    LET prs == IF HAVE_ENERGY THEN v[PRS] ELSE RMul(c2, v[RHO])
        F0 == [nv \in Comps |->
                 IF nv = RHO THEN u[Xn]
                 ELSE IF nv \in {MX1, MX2, MX3} THEN RMul(u[nv], v[Xn])
                 ELSE RMul(RAdd(u[ENG], v[PRS]), v[Xn])]
    IN  [F0 EXCEPT ![Xn] = RAdd(F0[Xn], prs)]

(***************************************************************************)
(* TvdlfHD<DIR, Xn, Xt, Xb>: one sweep of the TVDLF solver.                *)
(***************************************************************************)
\* the normal velocity component of a sweep along d
XnOf(d) == VX1 + d

ioffset == IF DIR = IDIR THEN 1 ELSE 0
joffset == IF DIR = JDIR THEN 1 ELSE 0
koffset == IF DIR = KDIR THEN 1 ELSE 0

KernelRangeNoOffset ==
    {<<k, j, i>> : k \in beg(KDIR) .. (end(KDIR) - 1),
                   j \in beg(JDIR) .. (end(JDIR) - 1),
                   i \in beg(IDIR) .. (end(IDIR) - 1)}

\* the index space of idefix_for (upper bounds are exclusive)
KernelRange ==
    {<<k, j, i>> : k \in beg(KDIR) .. (end(KDIR) + koffset - 1),
                   j \in beg(JDIR) .. (end(JDIR) + joffset - 1),
                   i \in beg(IDIR) .. (end(IDIR) + ioffset - 1)}

AverageNoHalf(vL, vR) == [nv \in Comps |-> RAdd(vL[nv], vR[nv])]

\* 1-- the averaged primitive state
Average(vL, vR) == [nv \in Comps |-> RMul(HALF_F, RAdd(vL[nv], vR[nv]))]

\* 4-- the wave speed of the averaged state
SoundSpeed(vRL) ==
    IF HAVE_ENERGY
    THEN SQRT(RMul(RAdd(RSub(gamma, ONE_F), ONE_F), RDiv(vRL[PRS], vRL[RHO])))
    ELSE SQRT(C2Iso)

WaveSpeedRightGoing(vRL, Xn) == FABS(RAdd(vRL[Xn], SoundSpeed(vRL)))

WaveSpeedMin(vRL, Xn) ==
    LET cRL == SoundSpeed(vRL)
        a == FABS(RAdd(vRL[Xn], cRL))
        b == FABS(RSub(vRL[Xn], cRL))
    IN  IF RLt(a, b) THEN a ELSE b

WaveSpeed(vRL, Xn) ==
    LET cRL == SoundSpeed(vRL)
    IN  FMAX(FABS(RAdd(vRL[Xn], cRL)), FABS(RSub(vRL[Xn], cRL)))

BlendFluxFullDissipation(fluxL, fluxR, uL, uR, cmax) ==
    [nv \in Comps |->
        RSub(RMul(HALF_F, RAdd(fluxL[nv], fluxR[nv])),
             RMul(cmax, RSub(uR[nv], uL[nv])))]

\* 5-- the flux from the left and right states
BlendFlux(fluxL, fluxR, uL, uR, cmax) ==
    [nv \in Comps |->
        RMul(HALF_F, RSub(RAdd(fluxL[nv], fluxR[nv]),
                          RMul(cmax, RSub(uR[nv], uL[nv]))))]

TVDLF_KernelLeftSpeed(vL, vR) ==
    LET gamma_m1 == RSub(gamma, ONE_F)
        Xn == XnOf(DIR)
        uL == K_PrimToCons(vL, gamma_m1)
        uR == K_PrimToCons(vR, gamma_m1)
        fluxL == K_Flux(vL, uL, C2Iso, Xn)
        fluxR == K_Flux(vR, uR, C2Iso, Xn)
        cmax == WaveSpeed(vL, Xn)
    IN  [flux |-> BlendFlux(fluxL, fluxR, uL, uR, cmax), cmax |-> cmax]

\* the body of TVDLF_Kernel once the primitive states are read
TVDLF_Kernel(vL, vR) ==
    LET gamma_m1 == RSub(gamma, ONE_F)
        Xn == XnOf(DIR)
        vRL == Average(vL, vR)
        uL == K_PrimToCons(vL, gamma_m1)
        uR == K_PrimToCons(vR, gamma_m1)
        fluxL == K_Flux(vL, uL, C2Iso, Xn)
        fluxR == K_Flux(vR, uR, C2Iso, Xn)
        cmax == WaveSpeed(vRL, Xn)
    IN  [flux |-> BlendFlux(fluxL, fluxR, uL, uR, cmax), cmax |-> cmax]

WriteIndexShifted(k, j, i) ==
    <<IF DIR = KDIR /\ k > beg(KDIR) THEN k - 1 ELSE k,
      IF DIR = JDIR /\ j > beg(JDIR) THEN j - 1 ELSE j,
      IF DIR = IDIR /\ i > beg(IDIR) THEN i - 1 ELSE i>>

\* the locations a face-task reads and writes
ReadIndex(k, j, i) == <<k, j, i>>
WriteIndex(k, j, i) == <<k, j, i>>

\* a face-task loads its left and right primitive states
KernelRead(t) ==
    /\ tpc[t] = "idle"
    /\ LET at == ReadIndex(t[1], t[2], t[3])
       IN  /\ tvL' = [tvL EXCEPT ![t] = PrimL[at]]
           /\ tvR' = [tvR EXCEPT ![t] = PrimR[at]]
           /\ accessLog' = accessLog \cup {<<t, "r", "PrimL", at>>, <<t, "r", "PrimR", at>>}
    /\ tpc' = [tpc EXCEPT ![t] = "read"]
    /\ UNCHANGED <<gridVars, geomVars, joinVars, ctlVars, DIR, PrimL, PrimR, FluxRiemann, cMax, nWrites>>

StoreFaceRunningMax(F, C, t, vL, vR) ==
    LET at == WriteIndex(t[1], t[2], t[3])
        prev == WriteIndexShifted(t[1], t[2], t[3])
        res == TVDLF_Kernel(vL, vR)
    IN  [Flux |-> [F EXCEPT ![at] = res.flux],
         cMax |-> [C EXCEPT ![at] = FMAX(res.cmax, C[prev])]]

\* 5,6-- the Flux and cMax arrays after the stores of face-task t
StoreFace(F, C, t, vL, vR) ==
    LET at == WriteIndex(t[1], t[2], t[3])
        res == TVDLF_Kernel(vL, vR)
    IN  [Flux |-> [F EXCEPT ![at] = res.flux], cMax |-> [C EXCEPT ![at] = res.cmax]]

\* a face-task computes and stores its flux and wave speed
KernelWrite(t) ==
    /\ tpc[t] = "read"
    /\ LET at == WriteIndex(t[1], t[2], t[3])
           st == StoreFace(FluxRiemann, cMax, t, tvL[t], tvR[t])
       IN  /\ FluxRiemann' = st.Flux
           /\ cMax' = st.cMax
           /\ accessLog' = accessLog \cup {<<t, "w", "Flux", at>>, <<t, "w", "cMax", at>>}
           /\ nWrites' = [nWrites EXCEPT ![at] = [Flux |-> @.Flux + 1, cMax |-> @.cMax + 1]]
    /\ tpc' = [tpc EXCEPT ![t] = "done"]
    /\ UNCHANGED <<gridVars, geomVars, joinVars, ctlVars, DIR, PrimL, PrimR, tvL, tvR>>

SweepNext == \E t \in KernelRange : KernelRead(t) \/ KernelWrite(t)

(***************************************************************************)
(* DataBlock::MakeGeometry: volumes, geometrical centres and face areas.   *)
(***************************************************************************)
\* cos and sin, rounded to 1/1000, at the multiples of 1/4 up to 8
CosTab ==
    <<1000, 969, 878, 732, 540, 315, 71, -178, -416, -628, -801,
      -924, -990, -994, -936, -821, -654, -446, -211, 38, 284, 512,
      709, 861, 960, 999, 977, 893, 754, 568, 347, 104, -146>>

SinTab ==
    <<0, 247, 479, 682, 841, 949, 997, 984, 909, 778, 598,
      382, 141, -108, -351, -572, -757, -895, -978, -999, -959, -859,
      -706, -508, -279, -33, 215, 450, 657, 823, 938, 995, 989>>

TrigIndex(q) == ((IAbs(q[1]) * 4) \div q[2]) + 1
cos(q) == IF IsFinite(q) THEN Rat(CosTab[TrigIndex(q)], 1000) ELSE NaN
sin(q) ==
    IF IsFinite(q)
    THEN Rat((IF q[1] < 0 THEN -1 ELSE 1) * SinTab[TrigIndex(q)], 1000)
    ELSE NaN

\* D_EXPAND(a, b, c): the product over the active axes only
D_EXPAND(a, b, c) ==
    IF DIMENSIONS = 1 THEN a
    ELSE IF DIMENSIONS = 2 THEN RMul(a, b)
    ELSE RMul(RMul(a, b), c)

IOFFSET == 1
JOFFSET == IF DIMENSIONS >= 2 THEN 1 ELSE 0
KOFFSET == IF DIMENSIONS >= 3 THEN 1 ELSE 0

dx1(i) == dx[IDIR][i]
dx2(j) == dx[JDIR][j]
dx3(k) == dx[KDIR][k]
x1(i) == x[IDIR][i]
x2(j) == x[JDIR][j]
x3(k) == x[KDIR][k]
x1p(i) == xr[IDIR][i]
x2p(j) == xr[JDIR][j]
x3p(k) == xr[KDIR][k]
x1m(i) == xl[IDIR][i]
x2m(j) == xl[JDIR][j]
x3m(k) == xl[KDIR][k]

Sq(q) == RMul(q, q)
Cube(q) == RMul(RMul(q, q), q)

VolumeCartesianAllAxes(k, j, i) == RMul(RMul(dx1(i), dx2(j)), dx3(k))

\* "Volumes"
VolumeCartesian(k, j, i) == D_EXPAND(dx1(i), dx2(j), dx3(k))

VolumeCylindrical(k, j, i) ==
    LET dVr == RDiv(FABS(RSub(Sq(x1p(i)), Sq(x1m(i)))), R(2))
    IN  D_EXPAND(dVr, dx2(j), ONE_F)

VolumePolar(k, j, i) ==
    LET dVr == RDiv(FABS(RSub(Sq(x1p(i)), Sq(x1m(i)))), R(2))
    IN  D_EXPAND(dVr, dx2(j), dx3(k))

VolumeSphericalAllAxes(k, j, i) ==
    RMul(RMul(RDiv(FABS(RSub(Cube(x1p(i)), Cube(x1m(i)))), R(3)),
              FABS(RSub(cos(x2m(j)), cos(x2p(j))))), dx3(k))

VolumeSpherical(k, j, i) ==
    LET dVr == RDiv(FABS(RSub(Cube(x1p(i)), Cube(x1m(i)))), R(3))
        dmuj == FABS(RSub(cos(x2m(j)), cos(x2p(j))))
    IN  D_EXPAND(dVr, dmuj, dx3(k))

Volume(k, j, i) ==
    CASE GEOMETRY = "CARTESIAN" -> VolumeCartesian(k, j, i)
      [] GEOMETRY = "CYLINDRICAL" -> VolumeCylindrical(k, j, i)
      [] GEOMETRY = "POLAR" -> VolumePolar(k, j, i)
      [] GEOMETRY = "SPHERICAL" -> VolumeSpherical(k, j, i)

\* "GeometricalCentersX1"
CenterX1(i) ==
    CASE GEOMETRY = "CARTESIAN" -> x1(i)
      [] GEOMETRY \in {"CYLINDRICAL", "POLAR"} ->
            RAdd(x1(i), RDiv(RMul(dx1(i), dx1(i)), RMul(R(12), x1(i))))
      [] GEOMETRY = "SPHERICAL" ->
            RAdd(x1(i), RDiv(RMul(RMul(R(2), x1(i)), RMul(dx1(i), dx1(i))),
                             RAdd(RMul(R(12), Sq(x1(i))), RMul(dx1(i), dx1(i)))))

MeanRadius(i) ==
    RDiv(RDiv(RSub(Cube(x1p(i)), Cube(x1m(i))), RSub(Sq(x1p(i)), Sq(x1m(i)))), Rat(3, 2))

\* "GeometricalCentersX2"
CenterX2(j) ==
    IF GEOMETRY # "SPHERICAL" THEN x2(j)
    ELSE LET xL == x2m(j)
             xR == x2p(j)
         IN  RDiv(RSub(RAdd(RSub(sin(xR), sin(xL)), RMul(xL, cos(xL))), RMul(xR, cos(xR))),
                  RSub(cos(xL), cos(xR)))

\* "GeometricalCentersX3"
CenterX3(k) == x3(k)

AreaX1CartesianWithDx1(k, j, i) ==
    D_EXPAND(dx1(IF i = np_tot(IDIR) THEN i - 1 ELSE i), dx2(j), dx3(k))

AreaX1PolarRightRadius(k, j, i) ==
    D_EXPAND(FABS(x1p(IF i = np_tot(IDIR) THEN i - 1 ELSE i)), dx2(j), dx3(k))

\* "AreaX1"
AreaX1Cartesian(k, j, i) == D_EXPAND(ONE_F, dx2(j), dx3(k))

AreaX1Cylindrical(k, j, i) ==
    IF i = np_tot(IDIR) THEN D_EXPAND(FABS(x1p(i - 1)), dx2(j), ONE_F)
    ELSE D_EXPAND(FABS(x1m(i)), dx2(j), ONE_F)

AreaX1Polar(k, j, i) ==
    IF i = np_tot(IDIR) THEN D_EXPAND(FABS(x1p(i - 1)), dx2(j), dx3(k))
    ELSE D_EXPAND(FABS(x1m(i)), dx2(j), dx3(k))

AreaX1SphericalGhostRadius(k, j, i) ==
    LET dmuj == FABS(RSub(cos(x2m(j)), cos(x2p(j))))
    IN  IF i >= end(IDIR) THEN D_EXPAND(Sq(x1p(np_tot(IDIR) - 1)), dmuj, dx3(k))
        ELSE D_EXPAND(Sq(x1m(i)), dmuj, dx3(k))

AreaX1Spherical(k, j, i) ==
    LET dmuj == FABS(RSub(cos(x2m(j)), cos(x2p(j))))
    IN  IF i = np_tot(IDIR) THEN D_EXPAND(Sq(x1p(i - 1)), dmuj, dx3(k))
        ELSE D_EXPAND(Sq(x1m(i)), dmuj, dx3(k))

AreaX1(k, j, i) ==
    CASE GEOMETRY = "CARTESIAN" -> AreaX1Cartesian(k, j, i)
      [] GEOMETRY = "CYLINDRICAL" -> AreaX1Cylindrical(k, j, i)
      [] GEOMETRY = "POLAR" -> AreaX1Polar(k, j, i)
      [] GEOMETRY = "SPHERICAL" -> AreaX1Spherical(k, j, i)

\* "AreaX2"
AreaX2Cartesian(k, j, i) == D_EXPAND(dx1(i), ONE_F, dx3(k))

AreaX2Cylindrical(k, j, i) == D_EXPAND(FABS(x1(i)), dx1(i), ONE_F)

AreaX2Polar(k, j, i) == D_EXPAND(dx1(i), ONE_F, dx3(k))

AreaX2Spherical(k, j, i) ==
    IF j = np_tot(JDIR)
    THEN D_EXPAND(RMul(x1(i), dx1(i)), FABS(sin(x2p(j - 1))), dx3(k))
    ELSE D_EXPAND(RMul(x1(i), dx1(i)), FABS(sin(x2m(j))), dx3(k))

AreaX2(k, j, i) ==
    CASE GEOMETRY = "CARTESIAN" -> AreaX2Cartesian(k, j, i)
      [] GEOMETRY = "CYLINDRICAL" -> AreaX2Cylindrical(k, j, i)
      [] GEOMETRY = "POLAR" -> AreaX2Polar(k, j, i)
      [] GEOMETRY = "SPHERICAL" -> AreaX2Spherical(k, j, i)

\* "AreaX3"
AreaX3Cartesian(k, j, i) == D_EXPAND(dx1(i), dx2(j), ONE_F)

AreaX3Cylindrical(k, j, i) == ONE_F

AreaX3Polar(k, j, i) == D_EXPAND(RMul(x1(i), dx1(i)), dx2(j), ONE_F)

AreaX3SphericalWithDx3(k, j, i) ==
    D_EXPAND(RMul(x1(i), dx1(i)), dx2(j), dx3(IF k = np_tot(KDIR) THEN k - 1 ELSE k))

AreaX3Spherical(k, j, i) == D_EXPAND(RMul(x1(i), dx1(i)), dx2(j), ONE_F)

AreaX3(k, j, i) ==
    CASE GEOMETRY = "CARTESIAN" -> AreaX3Cartesian(k, j, i)
      [] GEOMETRY = "CYLINDRICAL" -> AreaX3Cylindrical(k, j, i)
      [] GEOMETRY = "POLAR" -> AreaX3Polar(k, j, i)
      [] GEOMETRY = "SPHERICAL" -> AreaX3Spherical(k, j, i)

AreaReadsFaceIndex(d, k, j, i) ==
    LET Expand(a, b, c) ==
            a \cup (IF DIMENSIONS >= 2 THEN b ELSE {}) \cup (IF DIMENSIONS >= 3 THEN c ELSE {})
    IN  CASE d = IDIR /\ GEOMETRY = "CARTESIAN" -> Expand({}, {<<JDIR, j>>}, {<<KDIR, k>>})
          [] d = IDIR /\ GEOMETRY = "CYLINDRICAL" -> Expand({<<IDIR, i>>}, {<<JDIR, j>>}, {})
          [] d = IDIR /\ GEOMETRY = "POLAR" -> Expand({<<IDIR, i>>}, {<<JDIR, j>>}, {<<KDIR, k>>})
          [] d = IDIR /\ GEOMETRY = "SPHERICAL" ->
                {<<JDIR, j>>} \cup Expand({<<IDIR, i>>}, {}, {<<KDIR, k>>})
          [] d = JDIR /\ GEOMETRY \in {"CARTESIAN", "POLAR"} ->
                Expand({<<IDIR, i>>}, {}, {<<KDIR, k>>})
          [] d = JDIR /\ GEOMETRY = "CYLINDRICAL" -> Expand({<<IDIR, i>>}, {<<IDIR, i>>}, {})
          [] d = JDIR /\ GEOMETRY = "SPHERICAL" ->
                Expand({<<IDIR, i>>}, {<<JDIR, j>>}, {<<KDIR, k>>})
          [] d = KDIR /\ GEOMETRY = "CYLINDRICAL" -> {}
          [] d = KDIR /\ GEOMETRY # "CYLINDRICAL" -> Expand({<<IDIR, i>>}, {<<JDIR, j>>}, {})

\* the elements <<axis, index>> of the per-axis arrays (x, dx, xl, xr) that the area
\* kernel of direction d reads for the face (k, j, i); D_EXPAND drops the factors of
\* the inactive axes, and their reads with them
AreaReads(d, k, j, i) ==
    LET Expand(a, b, c) ==
            a \cup (IF DIMENSIONS >= 2 THEN b ELSE {}) \cup (IF DIMENSIONS >= 3 THEN c ELSE {})
        x1i == {<<IDIR, IF i = np_tot(IDIR) THEN i - 1 ELSE i>>}
        x2j == {<<JDIR, IF j = np_tot(JDIR) THEN j - 1 ELSE j>>}
    IN  CASE d = IDIR /\ GEOMETRY = "CARTESIAN" -> Expand({}, {<<JDIR, j>>}, {<<KDIR, k>>})
          [] d = IDIR /\ GEOMETRY = "CYLINDRICAL" -> Expand(x1i, {<<JDIR, j>>}, {})
          [] d = IDIR /\ GEOMETRY = "POLAR" -> Expand(x1i, {<<JDIR, j>>}, {<<KDIR, k>>})
          [] d = IDIR /\ GEOMETRY = "SPHERICAL" ->
                {<<JDIR, j>>} \cup Expand(x1i, {}, {<<KDIR, k>>})
          [] d = JDIR /\ GEOMETRY \in {"CARTESIAN", "POLAR"} ->
                Expand({<<IDIR, i>>}, {}, {<<KDIR, k>>})
          [] d = JDIR /\ GEOMETRY = "CYLINDRICAL" -> Expand({<<IDIR, i>>}, {<<IDIR, i>>}, {})
          [] d = JDIR /\ GEOMETRY = "SPHERICAL" -> Expand({<<IDIR, i>>}, x2j, {<<KDIR, k>>})
          [] d = KDIR /\ GEOMETRY = "CYLINDRICAL" -> {}
          [] d = KDIR /\ GEOMETRY # "CYLINDRICAL" -> Expand({<<IDIR, i>>}, {<<JDIR, j>>}, {})

\* the index space of the faces along d
FacesOf(d) ==
    {<<k, j, i>> :
        k \in 0 .. (np_tot(KDIR) + (IF d = KDIR THEN KOFFSET ELSE 0) - 1),
        j \in 0 .. (np_tot(JDIR) + (IF d = JDIR THEN JOFFSET ELSE 0) - 1),
        i \in 0 .. (np_tot(IDIR) + (IF d = IDIR THEN IOFFSET ELSE 0) - 1)}

GeomStep(now, next) == gpc = now /\ gpc' = next

Volumes ==
    /\ GeomStep("Volumes", "GeometricalCentersX1")
    /\ dV' = [c \in AllCells |-> Volume(c[1], c[2], c[3])]
    /\ UNCHANGED <<gridVars, sweepVars, joinVars, ctlVars, GEOMETRY, x, dx, xl, xr, A, xgc, rt, sm, s, dmu>>

GeometricalCentersX1 ==
    /\ GeomStep("GeometricalCentersX1", "GeometricalCentersX2")
    /\ xgc' = [xgc EXCEPT ![IDIR] = [i \in 0 .. (np_tot(IDIR) - 1) |-> CenterX1(i)]]
    /\ rt' = IF GEOMETRY = "SPHERICAL"
             THEN [i \in 0 .. (np_tot(IDIR) - 1) |-> MeanRadius(i)]
             ELSE rt
    /\ UNCHANGED <<gridVars, sweepVars, joinVars, ctlVars, GEOMETRY, x, dx, xl, xr, dV, A, sm, s, dmu>>

GeometricalCentersX2 ==
    /\ GeomStep("GeometricalCentersX2", "GeometricalCentersX3")
    /\ xgc' = [xgc EXCEPT ![JDIR] = [j \in 0 .. (np_tot(JDIR) - 1) |-> CenterX2(j)]]
    /\ IF GEOMETRY = "SPHERICAL"
       THEN /\ sm' = [j \in 0 .. (np_tot(JDIR) - 1) |-> FABS(sin(x2m(j)))]
            /\ s' = [j \in 0 .. (np_tot(JDIR) - 1) |-> FABS(sin(x2(j)))]
            /\ dmu' = [j \in 0 .. (np_tot(JDIR) - 1) |->
                          FABS(RSub(cos(x2m(j)), cos(x2p(j))))]
       ELSE UNCHANGED <<sm, s, dmu>>
    /\ UNCHANGED <<gridVars, sweepVars, joinVars, ctlVars, GEOMETRY, x, dx, xl, xr, dV, A, rt>>

GeometricalCentersX3 ==
    /\ GeomStep("GeometricalCentersX3", "AreaX1")
    /\ xgc' = [xgc EXCEPT ![KDIR] = [k \in 0 .. (np_tot(KDIR) - 1) |-> CenterX3(k)]]
    /\ UNCHANGED <<gridVars, sweepVars, joinVars, ctlVars, GEOMETRY, x, dx, xl, xr, dV, A, rt, sm, s, dmu>>

AreaX1Kernel ==
    /\ GeomStep("AreaX1", "AreaX2")
    /\ A' = [A EXCEPT ![IDIR] = [f \in FacesOf(IDIR) |-> AreaX1(f[1], f[2], f[3])]]
    /\ UNCHANGED <<gridVars, sweepVars, joinVars, ctlVars, GEOMETRY, x, dx, xl, xr, dV, xgc, rt, sm, s, dmu>>

AreaX2Kernel ==
    /\ GeomStep("AreaX2", "AreaX3")
    /\ A' = [A EXCEPT ![JDIR] = [f \in FacesOf(JDIR) |-> AreaX2(f[1], f[2], f[3])]]
    /\ UNCHANGED <<gridVars, sweepVars, joinVars, ctlVars, GEOMETRY, x, dx, xl, xr, dV, xgc, rt, sm, s, dmu>>

AreaX3Kernel ==
    /\ GeomStep("AreaX3", "done")
    /\ A' = [A EXCEPT ![KDIR] = [f \in FacesOf(KDIR) |-> AreaX3(f[1], f[2], f[3])]]
    /\ UNCHANGED <<gridVars, sweepVars, joinVars, ctlVars, GEOMETRY, x, dx, xl, xr, dV, xgc, rt, sm, s, dmu>>

MakeGeometry ==
    \/ Volumes
    \/ GeometricalCentersX1
    \/ GeometricalCentersX2
    \/ GeometricalCentersX3
    \/ AreaX1Kernel
    \/ AreaX2Kernel
    \/ AreaX3Kernel

\* the slice of the radial axis a of the whole domain that subdomain r holds: its
\* interior cells follow those of subdomain r - 1, its ghost cells overlap the neighbours
SubdomainAxis(a, r) == [i \in 0 .. (np_tot(IDIR) - 1) |-> a[i + r * np_int[IDIR]]]

\* the data block of the next subdomain along x1, built by another process
NextSubdomain ==
    /\ gpc = "done" /\ rank + 1 < grid.nproc
    /\ rank' = rank + 1
    /\ Aleft' = A[IDIR]
    /\ xl' = [xl EXCEPT ![IDIR] = SubdomainAxis(grid.xl, rank + 1)]
    /\ xr' = [xr EXCEPT ![IDIR] = SubdomainAxis(grid.xr, rank + 1)]
    /\ dx' = [dx EXCEPT ![IDIR] = [i \in DOMAIN @ |-> RSub(xr'[IDIR][i], xl'[IDIR][i])]]
    /\ x' = [x EXCEPT ![IDIR] =
                [i \in DOMAIN @ |-> RMul(HALF_F, RAdd(xl'[IDIR][i], xr'[IDIR][i]))]]
    /\ dV' = [c \in AllCells |-> ZERO_F]
    /\ A' = [d \in Dirs |-> [f \in FacesOf(d) |-> ZERO_F]]
    /\ xgc' = [d \in Dirs |-> [i \in 0 .. (np_tot(d) - 1) |-> ZERO_F]]
    /\ rt' = [i \in DOMAIN rt |-> ZERO_F]
    /\ sm' = [j \in DOMAIN sm |-> ZERO_F]
    /\ s' = [j \in DOMAIN s |-> ZERO_F]
    /\ dmu' = [j \in DOMAIN dmu |-> ZERO_F]
    /\ gpc' = "Volumes"
    /\ UNCHANGED <<gridVars, sweepVars, ctlVars, GEOMETRY, grid>>

JoinNext == MakeGeometry \/ NextSubdomain

(***************************************************************************)
(* Input: the command line and the input file.  A string is a sequence of   *)
(* characters; positions count from 0 as in std::string.                    *)
(***************************************************************************)
npos == -1

\* the string literals of input.cpp, and the characters std::stoi and operator>> know
Str ==
    [CommandLine |-> <<"C", "o", "m", "m", "a", "n", "d", "L", "i", "n", "e">>, dec |-> <<"d", "e", "c">>, restart |-> <<"r", "e", "s", "t", "a", "r", "t">>,
     optDec |-> <<"-", "d", "e", "c">>, optRestart |-> <<"-", "r", "e", "s", "t", "a", "r", "t">>, optI |-> <<"-", "i">>,
     ini |-> <<"i", "d", "e", "f", "i", "x", ".", "i", "n", "i">>, dmp |-> <<"d", "m", "p">>,
     digits |-> <<"0", "1", "2", "3", "4", "5", "6", "7", "8", "9">>, white |-> {" ", "\t"}]

\* find and find_first_of (member = TRUE), find_first_not_of (member = FALSE): the
\* first position at or after from whose character is, or is not, one of chars
FindFirst(str, chars, from, member) ==
    LET hits == {i \in from .. (Len(str) - 1) : (str[i + 1] \in chars) = member}
    IN  IF hits = {} THEN npos ELSE CHOOSE i \in hits : \A h \in hits : i <= h

\* substr(pos, count) and assign(str, pos, count), for pos <= size
substr(str, pos, count) ==
    SubSeq(str, pos + 1,
           IF count = npos \/ pos + count > Len(str) THEN Len(str) ELSE pos + count)

\* the words operator>> extracts from a stream, one after the other
RECURSIVE Tokens(_)
Tokens(str) ==
    IF str = <<>> THEN <<>>
    ELSE IF Head(str) \in Str.white THEN Tokens(Tail(str))
    ELSE LET e == FindFirst(str, Str.white, 0, TRUE)
             n == IF e = npos THEN Len(str) ELSE e
         IN  <<SubSeq(str, 1, n)>> \o Tokens(SubSeq(str, n + 1, Len(str)))

\* the value of the first k characters of a run of digits
RECURSIVE DigitsValue(_, _)
DigitsValue(body, k) ==
    IF k = 0 THEN 0
    ELSE 10 * DigitsValue(body, k - 1) + (CHOOSE d \in 0 .. 9 : Str.digits[d + 1] = body[k])

\* std::stoi: leading white space, an optional sign, the longest run of digits;
\* ok is FALSE when it throws std::invalid_argument
stoi(str) ==
    LET Run(body, neg, n) ==
            IF n = 0 THEN [ok |-> FALSE, value |-> 0]
            ELSE [ok |-> TRUE,
                  value |-> IF neg THEN 0 - DigitsValue(body, n) ELSE DigitsValue(body, n)]
        Value(body, neg, e) == Run(body, neg, IF e = npos THEN Len(body) ELSE e)
        Unsigned(body, neg) ==
            Value(body, neg, FindFirst(body, {Str.digits[d] : d \in 1 .. 10}, 0, FALSE))
        Signed(text) ==
            IF text # <<>> /\ Head(text) \in {"-", "+"}
            THEN Unsigned(Tail(text), Head(text) = "-")
            ELSE Unsigned(text, FALSE)
        Skip(b) == Signed(IF b = npos THEN <<>> ELSE substr(str, b, npos))
    IN  Skip(FindFirst(str, Str.white, 0, FALSE))

\* std::to_string of an int
RECURSIVE to_string(_)
to_string(n) ==
    IF n < 0 THEN <<"-">> \o to_string(0 - n)
    ELSE IF n < 10 THEN <<Str.digits[n + 1]>>
    ELSE to_string(n \div 10) \o <<Str.digits[(n % 10) + 1]>>

getFileExtension(file_name) ==
    LET dots == {i \in 0 .. (Len(file_name) - 1) : file_name[i + 1] = "."}
        position == IF dots = {} THEN npos ELSE CHOOSE i \in dots : \A h \in dots : h <= i
    IN  substr(file_name, position + 1, npos)

\* inputParameters[b][p].push_back(v) for each v of vs in turn: the block and the
\* parameter are created by the first push_back, and by nothing else
Store(ip, b, p, vs) ==
    IF vs = <<>> THEN ip
    ELSE LET blk == IF b \in DOMAIN ip THEN ip[b] ELSE <<>>
             old == IF p \in DOMAIN blk THEN blk[p] ELSE <<>>
             new == [q \in (DOMAIN blk) \cup {p} |-> IF q = p THEN old \o vs ELSE blk[q]]
         IN  [c \in (DOMAIN ip) \cup {b} |-> IF c = b THEN new ELSE ip[c]]

\* IDEFIX_ERROR(msg) ends the run: nothing after it is executed
IDEFIX_ERROR(st, msg) == [st EXCEPT !.err = msg]

\* The loop of ParseCommandLine works on
\* st = [i, ip, inputFileName, restartRequested, restartFileNumber, err]:
\* i is the loop index, err what IDEFIX_ERROR or an exception ended the loop with.

\* "-dec": one value per dimension
ParseDec(st) ==
    LET nDec == IF st.i + DIMENSIONS < Len(argv) THEN DIMENSIONS ELSE Len(argv) - 1 - st.i
    IN  IF st.err # "" \/ argv[st.i + 1] # Str.optDec THEN st
        ELSE IF ~WITH_MPI
        THEN IDEFIX_ERROR(st, "Domain decomposition option '-dec' only makes sense when MPI is enabled")
        ELSE IF nDec < DIMENSIONS
        THEN IDEFIX_ERROR([st EXCEPT !.ip = Store(@, Str.CommandLine, Str.dec,
                                                  SubSeq(argv, st.i + 2, st.i + 1 + nDec)),
                                     !.i = @ + nDec + 1],
                          "You must specify -dec n1 ...")
        ELSE [st EXCEPT !.ip = Store(@, Str.CommandLine, Str.dec,
                                     SubSeq(argv, st.i + 2, st.i + 1 + DIMENSIONS)),
                        !.i = @ + DIMENSIONS]

\* "-restart": the next argument, or the highest dump number of the directory
ParseRestart(st) ==
    LET last == (st.i + 1) >= Len(argv)
        Request(sirestart, number) ==
            [st EXCEPT !.i = IF last THEN @ ELSE @ + 1,
                       !.ip = Store(@, Str.CommandLine, Str.restart, <<sirestart>>),
                       !.restartRequested = TRUE,
                       !.restartFileNumber = IF number.ok THEN number.value ELSE @,
                       !.err = IF number.ok THEN "" ELSE "std::stoi"]
        Restart(sirestart) == Request(sirestart, stoi(sirestart))
        Highest(irestart) ==
            IF irestart < 0 THEN IDEFIX_ERROR(st, "Cannot restart: no dumpfile found.")
            ELSE Restart(to_string(irestart))
        Latest(ifile) ==
            IF \E n \in DOMAIN ifile : ~ifile[n].ok
            THEN [st EXCEPT !.err = "std::stoi, std::string::substr"]
            ELSE Highest(CHOOSE r \in {-1} \cup {ifile[n].value : n \in DOMAIN ifile} :
                            \A n \in DOMAIN ifile : ifile[n].value <= r)
        Files(dumps) ==
            Latest([n \in 1 .. Len(dumps) |->
                      IF Len(dumps[n]) < 5 THEN [ok |-> FALSE, value |-> 0]
                      ELSE stoi(substr(dumps[n], 5, 4))])
    IN  IF st.err # "" \/ argv[st.i + 1] # Str.optRestart THEN st
        ELSE IF last
        THEN Files(SelectSeq(dirFiles, LAMBDA f : getFileExtension(f) = Str.dmp))
        ELSE Restart(argv[st.i + 2])

\* "-i": the name of the input file; anything else is an unknown option, not an error
ParseI(st) ==
    IF st.err # "" \/ argv[st.i + 1] # Str.optI THEN st
    ELSE IF st.i + 2 > Len(argv)
    THEN IDEFIX_ERROR(st, "You must specify -i filename ...")
    ELSE [st EXCEPT !.i = @ + 1, !.inputFileName = argv[st.i + 2]]

\* the three ifs of one iteration, each skipped once an error has ended the loop,
\* then the i++ of the for
RECURSIVE ParseArgs(_)
ParseArgs(st) ==
    LET Advance(f) == IF f.err # "" THEN f ELSE [f EXCEPT !.i = @ + 1]
    IN  IF st.i >= Len(argv) \/ st.err # "" THEN st
        ELSE ParseArgs(Advance(ParseI(ParseRestart(ParseDec(st)))))

ParseLineWithComments(st, lineWithComments) ==
    LET line == lineWithComments
        firstChar == FindFirst(line, {" "}, 0, FALSE)
        lastChar == FindFirst(line, {"]"}, firstChar + 1, TRUE)
        words == Tokens(line)
        name == IF words = <<>> THEN st.paramName ELSE Head(words)
    IN  IF line = <<>> \/ firstChar = npos THEN st
        ELSE IF line[firstChar + 1] = "["
        THEN IF lastChar = npos THEN IDEFIX_ERROR(st, "Block name not properly ended")
             ELSE [st EXCEPT !.blockName = substr(line, firstChar + 1, lastChar - 1),
                             !.haveBlock = TRUE]
        ELSE IF ~st.haveBlock
        THEN IDEFIX_ERROR(st, "Input file must specify a block name before the first parameter")
        ELSE [st EXCEPT !.paramName = name,
                        !.ip = Store(@, st.blockName, name,
                                     IF words = <<>> THEN <<>> ELSE Tail(words))]

\* one iteration of the getline loop of the constructor;
\* st = [ip, haveBlock, blockName, paramName, err]
ParseLine(st, lineWithComments) ==
    LET line == substr(lineWithComments, 0, FindFirst(lineWithComments, {"#"}, 0, TRUE))
        firstChar == FindFirst(line, {" "}, 0, FALSE)
        lastChar == FindFirst(line, {"]"}, firstChar + 1, TRUE)
        words == Tokens(line)
        name == IF words = <<>> THEN st.paramName ELSE Head(words)
    IN  IF line = <<>> \/ firstChar = npos THEN st
        ELSE IF line[firstChar + 1] = "["
        THEN IF lastChar = npos THEN IDEFIX_ERROR(st, "Block name not properly ended")
             ELSE [st EXCEPT !.blockName = substr(line, firstChar + 1, lastChar - 1),
                             !.haveBlock = TRUE]
        ELSE IF ~st.haveBlock
        THEN IDEFIX_ERROR(st, "Input file must specify a block name before the first parameter")
        ELSE [st EXCEPT !.paramName = name,
                        !.ip = Store(@, st.blockName, name,
                                     IF words = <<>> THEN <<>> ELSE Tail(words))]

CheckEntryInserting(blockName_, paramName_) ==
    LET ip == IF blockName_ \in DOMAIN inputParameters
                 /\ paramName_ \in DOMAIN inputParameters[blockName_]
              THEN inputParameters
              ELSE [b \in (DOMAIN inputParameters) \cup {blockName_} |->
                      LET blk == IF b \in DOMAIN inputParameters
                                 THEN inputParameters[b] ELSE <<>>
                      IN  IF b # blockName_ THEN blk
                          ELSE [q \in (DOMAIN blk) \cup {paramName_} |->
                                  IF q \in DOMAIN blk THEN blk[q] ELSE <<>>]]
    IN  [result |-> Len(ip[blockName_][paramName_]), params |-> ip]

\* the value CheckEntry returns, and the container as its two lookups leave it
CheckEntry(blockName_, paramName_) ==
    [result |-> IF blockName_ \in DOMAIN inputParameters
                   /\ paramName_ \in DOMAIN inputParameters[blockName_]
                THEN Len(inputParameters[blockName_][paramName_])
                ELSE -1,
     params |-> inputParameters]

\* the input files that can be opened; they hold the same lines
IniFiles == {Str.ini, <<"b">>}

\* the constructor up to the opening of the input file
ParseCommandLine ==
    /\ ipc = "ParseCommandLine"
    /\ LET st == ParseArgs([i |-> 1, ip |-> inputParameters, inputFileName |-> Str.ini,
                               restartRequested |-> restartRequested,
                               restartFileNumber |-> restartFileNumber, err |-> ""])
           msg == IF st.err # "" THEN st.err
                  ELSE IF st.inputFileName \notin IniFiles
                  THEN "Input constructor cannot open input file" ELSE ""
       IN  /\ inputParameters' = st.ip
           /\ inputFileName' = st.inputFileName
           /\ restartRequested' = st.restartRequested
           /\ restartFileNumber' = st.restartFileNumber
           /\ errorMsg' = msg
           /\ ipc' = IF msg # "" THEN "error" ELSE "getline"
    /\ UNCHANGED <<gridVars, sweepVars, geomVars, joinVars, vtkVars, abortVars, WITH_MPI, argv,
                   dirFiles, fileLines, haveBlock, blockName, paramName, lineNo, ceArgs,
                   ceResult>>

\* the constructor reads and parses the next line of the file
ReadLine ==
    /\ ipc = "getline" /\ lineNo < Len(fileLines)
    /\ LET st == ParseLine([ip |-> inputParameters, haveBlock |-> haveBlock,
                            blockName |-> blockName, paramName |-> paramName,
                            err |-> ""], fileLines[lineNo + 1])
       IN  /\ inputParameters' = st.ip
           /\ haveBlock' = st.haveBlock
           /\ blockName' = st.blockName
           /\ paramName' = st.paramName
           /\ errorMsg' = st.err
           /\ ipc' = IF st.err # "" THEN "error" ELSE "getline"
    /\ lineNo' = lineNo + 1
    /\ UNCHANGED <<gridVars, sweepVars, geomVars, joinVars, vtkVars, abortVars, WITH_MPI, argv,
                   dirFiles, fileLines, inputFileName, restartRequested,
                   restartFileNumber, ceArgs, ceResult>>

\* getline finds the end of the file; the constructor returns
CloseFile ==
    /\ ipc = "getline" /\ lineNo = Len(fileLines)
    /\ ipc' = "done"
    /\ UNCHANGED <<gridVars, sweepVars, geomVars, joinVars, vtkVars, abortVars, WITH_MPI, argv,
                   dirFiles, fileLines, inputParameters, inputFileName, restartRequested,
                   restartFileNumber, haveBlock, blockName, paramName, lineNo, errorMsg,
                   ceArgs, ceResult>>

(***************************************************************************)
(* The abort flag.  Each process has its own copy of the static flag; the   *)
(* signal handler of a process can run between any two steps of it.        *)
(***************************************************************************)
NProcs == 2
MaxCalls == 2

\* the processes of MPI_COMM_WORLD, one process without MPI
Procs == 0 .. ((IF WITH_MPI THEN NProcs ELSE 1) - 1)

MPI_AllreduceMin(sendbuf) ==
    CHOOSE v \in {sendbuf[q] : q \in DOMAIN sendbuf} : \A q \in DOMAIN sendbuf : v <= sendbuf[q]

\* MPI_Allreduce with MPI_MAX: what every process receives
MPI_Allreduce(sendbuf) ==
    CHOOSE v \in {sendbuf[q] : q \in DOMAIN sendbuf} : \A q \in DOMAIN sendbuf : sendbuf[q] <= v

\* SIGUSR2 is delivered to process p
signalHandler(p) ==
    /\ abortRequested' = [abortRequested EXCEPT ![p] = TRUE]
    /\ signalled' = signalled \cup {p}
    /\ UNCHANGED <<gridVars, sweepVars, geomVars, joinVars, vtkVars, inputVars, apc, abortValue,
                   returnValue, enteredWith, nCalls>>

\* process p calls CheckForAbort: with MPI it reads the flag and enters the
\* reduction, without MPI it returns the flag
CheckForAbort(p) ==
    /\ apc[p] = "run" /\ nCalls[p] < MaxCalls
    /\ nCalls' = [nCalls EXCEPT ![p] = @ + 1]
    /\ enteredWith' = [enteredWith EXCEPT ![p] = Append(@, p \in signalled)]
    /\ IF WITH_MPI
       THEN /\ abortValue' = [abortValue EXCEPT ![p] = IF abortRequested[p] THEN 1 ELSE 0]
            /\ apc' = [apc EXCEPT ![p] = "allreduce"]
            /\ UNCHANGED returnValue
       ELSE /\ returnValue' = [returnValue EXCEPT ![p] = abortRequested[p]]
            /\ apc' = [apc EXCEPT ![p] = "returned"]
            /\ UNCHANGED abortValue
    /\ UNCHANGED <<gridVars, sweepVars, geomVars, joinVars, vtkVars, inputVars, abortRequested,
                   signalled>>

\* every process has entered the reduction: each receives the maximum and returns
AllreduceReturn ==
    /\ WITH_MPI /\ \A p \in Procs : apc[p] = "allreduce"
    /\ abortValue' = [p \in Procs |-> MPI_Allreduce(abortValue)]
    /\ returnValue' = [p \in Procs |-> MPI_Allreduce(abortValue) > 0]
    /\ apc' = [p \in Procs |-> "returned"]
    /\ UNCHANGED <<gridVars, sweepVars, geomVars, joinVars, vtkVars, inputVars, abortRequested,
                   signalled, enteredWith, nCalls>>

\* the caller of CheckForAbort goes on with the time loop
Resume(p) ==
    /\ apc[p] = "returned"
    /\ apc' = [apc EXCEPT ![p] = "run"]
    /\ UNCHANGED <<gridVars, sweepVars, geomVars, joinVars, vtkVars, inputVars, abortRequested,
                   abortValue, returnValue, signalled, enteredWith, nCalls>>

AbortNext ==
    \/ \E p \in Procs : signalHandler(p)
    \/ \E p \in Procs : CheckForAbort(p)
    \/ AllreduceReturn
    \/ \E p \in Procs : Resume(p)

(***************************************************************************)
(* VTK output.  A process is named by its coordinates xproc in the grid of  *)
(* subdomains; every subdomain holds np_int cells along each direction.     *)
(***************************************************************************)
MaxWrites == 2

Ranks == (0 .. (nproc[IDIR] - 1)) \X (0 .. (nproc[JDIR] - 1)) \X (0 .. (nproc[KDIR] - 1))

\* the first interior cell of the subdomain in the global grid, ghost cells counted
gbeg(xproc, dir) == nghost[dir] + xproc[dir + 1] * np_int[dir]

\* the sizes of the global grid (nx1, nx2, nx3) and the node offsets, by direction
nx(dir) == nproc[dir] * np_int[dir]
OFFSET(dir) == <<IOFFSET, JOFFSET, KOFFSET>>[dir + 1]

\* VTK_FORMAT == VTK_STRUCTURED_GRID
StructuredGrid == GEOMETRY \in {"POLAR", "SPHERICAL"}

NodeSubarrayAllPlusOne(xproc) ==
    [size |-> [n \in 0 .. 2 |-> nx(2 - n) + OFFSET(2 - n)],
     start |-> [n \in 0 .. 2 |-> gbeg(xproc, 2 - n) - nghost[2 - n]],
     subsize |-> [n \in 0 .. 2 |-> np_int[2 - n] + OFFSET(2 - n)]]

\* nodesize, nodestart and nodesubsize of Vtk::Init, filled backwards; the fourth
\* dimension always holds the 3 components
NodeSubarray(xproc) ==
    [size |-> [n \in 0 .. 2 |-> nx(2 - n) + OFFSET(2 - n)],
     start |-> [n \in 0 .. 2 |-> gbeg(xproc, 2 - n) - nghost[2 - n]],
     subsize |-> [n \in 0 .. 2 |->
                    np_int[2 - n]
                    + (IF xproc[(2 - n) + 1] = nproc[2 - n] - 1 THEN OFFSET(2 - n) ELSE 0)]]

\* size, start and subsize of the view of the cell data
CellSubarray(xproc) ==
    [size |-> [n \in 0 .. 2 |-> nx(2 - n)],
     start |-> [n \in 0 .. 2 |-> gbeg(xproc, 2 - n) - nghost[2 - n]],
     subsize |-> [n \in 0 .. 2 |-> np_int[2 - n]]]

\* Vtk::Init on process xproc
VtkInit(xproc) ==
    /\ vpc[xproc] = -1
    /\ nodeView' = [nodeView EXCEPT ![xproc] = IF StructuredGrid THEN NodeSubarray(xproc) ELSE @]
    /\ view' = [view EXCEPT ![xproc] = IF WITH_MPI THEN CellSubarray(xproc) ELSE @]
    /\ vpc' = [vpc EXCEPT ![xproc] = 0]
    /\ UNCHANGED <<gridVars, sweepVars, geomVars, joinVars, inputVars, abortVars, nproc,
                   offset, vtkFileNumber, vlog>>

\* the characters operator<< writes for an integer
NumLen(n) == Len(to_string(n))

\* the calls Vtk::Write makes after it has opened the file, in their order
\* (GITVERSION is given by the build: a version of six characters is taken, and
\* the names of the fields have three characters):
\* WriteHeader, then one WriteScalar per field; n is the length of the string, or
\* the number of floats
WriteProgram ==
    LET String(n) == [call |-> "WriteHeaderString", n |-> n]
        Float(n) == [call |-> "WriteHeaderFloat", n |-> n]
        nodes == [d \in Dirs |-> nx(d) + OFFSET(d)]
        Coordinates(d, lead) == <<String(lead + 14 + NumLen(nodes[d]) + 7), Float(nodes[d])>>
    IN  <<String(27 + (7 + 6 + 9 + 1) + 7 + (IF StructuredGrid THEN 24 ELSE 25)
                 + 11 + NumLen(nodes[IDIR]) + 1 + NumLen(nodes[JDIR]) + 1 + NumLen(nodes[KDIR]) + 1)>>
        \o (IF StructuredGrid
            THEN <<String(7 + NumLen(nodes[IDIR] * nodes[JDIR] * nodes[KDIR]) + 7),
                   [call |-> "WriteHeaderNodes", n |-> 0]>>
            ELSE Coordinates(IDIR, 0) \o Coordinates(JDIR, 1) \o Coordinates(KDIR, 1))
        \o <<String(1 + 10 + NumLen(nx(IDIR) * nx(JDIR) * nx(KDIR)) + 1)>>
        \o [nv \in 1 .. NVAR |-> [call |-> "WriteScalar", n |-> 1 + 8 + 3 + 7 + 21]]

\* The write calls act on f = [offset, log] of the calling process.
\* WriteHeaderString: process 0 writes the string, every process moves its offset
WriteHeaderString(f, xproc, n) ==
    LET Done(o) == [offset |-> o,
                    log |-> Append(f.log, [call |-> "WriteHeaderString", offset |-> o,
                                           bytes |-> IF WITH_MPI /\ xproc # <<0, 0, 0>>
                                                     THEN 0 ELSE n])]
    IN  Done(IF WITH_MPI THEN f.offset + n ELSE f.offset)

\* WriteHeaderFloat: the same for nelem floats
WriteHeaderFloat(f, xproc, nelem) ==
    LET Done(o) == [offset |-> o,
                    log |-> Append(f.log, [call |-> "WriteHeaderFloat", offset |-> o,
                                           bytes |-> IF WITH_MPI /\ xproc # <<0, 0, 0>>
                                                     THEN 0 ELSE 4 * nelem])]
    IN  Done(IF WITH_MPI THEN f.offset + nelem * 4 ELSE f.offset)

WriteHeaderNodesLocalSize(f, xproc) ==
    LET size == nodeView[xproc].subsize[0] * nodeView[xproc].subsize[1]
                    * nodeView[xproc].subsize[2] * 3
        Done(o) == [offset |-> o,
                    log |-> Append(f.log, [call |-> "WriteHeaderNodes", offset |-> o,
                                           bytes |-> 4 * size])]
    IN  Done(IF WITH_MPI THEN f.offset + 4 * size ELSE f.offset)

\* WriteHeaderNodes: every process writes its node_coord, the offset moves by the
\* size of the global node array
WriteHeaderNodes(f, xproc) ==
    LET size == nodeView[xproc].subsize[0] * nodeView[xproc].subsize[1]
                    * nodeView[xproc].subsize[2] * 3
        Done(o) == [offset |-> o,
                    log |-> Append(f.log, [call |-> "WriteHeaderNodes", offset |-> o,
                                           bytes |-> 4 * size])]
    IN  Done(IF WITH_MPI
             THEN f.offset + 4 * (nx(IDIR) + IOFFSET) * (nx(JDIR) + JOFFSET)
                                * (nx(KDIR) + KOFFSET) * 3
             ELSE f.offset)

\* WriteScalar: the header of the field, then every process writes its cells and
\* the offset moves by the size of the global field
WriteScalar(f, xproc, n) ==
    LET Data(h) ==
            LET Done(o) == [offset |-> o,
                            log |-> Append(h.log,
                                           [call |-> "WriteScalar", offset |-> o,
                                            bytes |-> 4 * np_int[IDIR] * np_int[JDIR]
                                                        * np_int[KDIR]])]
            IN  Done(IF WITH_MPI
                     THEN h.offset + 4 * nx(IDIR) * nx(JDIR) * nx(KDIR)
                     ELSE h.offset)
    IN  Data(WriteHeaderString(f, xproc, n))

\* Vtk::Write up to WriteHeader: the processes open the file together
\* (MPI_File_open is collective) and each resets its offset; vlog records the file
\* number in the name of the file and the calls made on the file
WriteOpen ==
    /\ \A xproc \in Ranks : vpc[xproc] = 0 /\ vtkFileNumber[xproc] < MaxWrites
    /\ offset' = [xproc \in Ranks |-> IF WITH_MPI THEN 0 ELSE offset[xproc]]
    /\ vlog' = [xproc \in Ranks |->
                    Append(vlog[xproc], [file |-> vtkFileNumber[xproc], calls |-> <<>>])]
    /\ vpc' = [xproc \in Ranks |-> 1]
    /\ UNCHANGED <<gridVars, sweepVars, geomVars, joinVars, inputVars, abortVars, nproc,
                   nodeView, view, vtkFileNumber>>

\* the next call of the Write of process xproc
WriteCall(xproc) ==
    /\ vpc[xproc] \in 1 .. Len(WriteProgram)
    /\ LET Next(c, f) ==
               CASE c.call = "WriteHeaderString" -> WriteHeaderString(f, xproc, c.n)
                 [] c.call = "WriteHeaderFloat" -> WriteHeaderFloat(f, xproc, c.n)
                 [] c.call = "WriteHeaderNodes" -> WriteHeaderNodes(f, xproc)
                 [] c.call = "WriteScalar" -> WriteScalar(f, xproc, c.n)
           Set(g) == /\ offset' = [offset EXCEPT ![xproc] = g.offset]
                     /\ vlog' = [vlog EXCEPT ![xproc] = [@ EXCEPT ![Len(@)].calls = g.log]]
       IN  Set(Next(WriteProgram[vpc[xproc]],
                    [offset |-> offset[xproc], log |-> vlog[xproc][Len(vlog[xproc])].calls]))
    /\ vpc' = [vpc EXCEPT ![xproc] = @ + 1]
    /\ UNCHANGED <<gridVars, sweepVars, geomVars, joinVars, inputVars, abortVars, nproc,
                   nodeView, view, vtkFileNumber>>

\* the end of Vtk::Write: the file is closed and the file number incremented
WriteClose(xproc) ==
    /\ vpc[xproc] = Len(WriteProgram) + 1
    /\ vtkFileNumber' = [vtkFileNumber EXCEPT ![xproc] = @ + 1]
    /\ vpc' = [vpc EXCEPT ![xproc] = 0]
    /\ UNCHANGED <<gridVars, sweepVars, geomVars, joinVars, inputVars, abortVars, nproc,
                   nodeView, view, offset, vlog>>

VtkNext ==
    \/ \E xproc \in Ranks : VtkInit(xproc)
    \/ WriteOpen
    \/ \E xproc \in Ranks : WriteCall(xproc)
    \/ \E xproc \in Ranks : WriteClose(xproc)

(***************************************************************************)
(* Initial states of a sweep.                                              *)
(***************************************************************************)
\* ghost cells on each side of an active axis
NGhost == 1
\* largest number of interior cells along an axis
MaxNp == 2
\* largest number of faces in a sweep
MaxFaces == 4

MkState(rho, v1, v2, v3, p) ==
    [nv \in Comps |->
        IF nv = RHO THEN R(rho) ELSE IF nv = VX1 THEN R(v1)
        ELSE IF nv = VX2 THEN R(v2) ELSE IF nv = VX3 THEN R(v3) ELSE R(p)]

Velocities == {<<-2, 0, 1>>, <<1, 1, 0>>, <<0, -1, -1>>}

PrimStates ==
    {MkState(rho, v[1], v[2], v[3], p) : rho \in {1, 3}, v \in Velocities, p \in {1, 3}}

StateTable ==
    <<MkState(1, 0, 0, 0, 1), MkState(1, 2, -1, 0, 1),
      MkState(3, -2, 1, 1, 2), MkState(2, 1, 0, -3, 4)>>

PhysConfigs ==
    {[e |-> TRUE, g |-> Rat(5, 3), c |-> R(1)], [e |-> TRUE, g |-> Rat(7, 5), c |-> R(1)],
     [e |-> FALSE, g |-> Rat(5, 3), c |-> R(1)], [e |-> FALSE, g |-> Rat(5, 3), c |-> R(2)]}

ZeroVec == [nv \in Comps |-> ZERO_F]

\* MakeGeometry is not part of a sweep
GeomIdle ==
    /\ GEOMETRY = "CARTESIAN"
    /\ x = <<>> /\ dx = <<>> /\ xl = <<>> /\ xr = <<>>
    /\ dV = <<>> /\ A = <<>> /\ xgc = <<>>
    /\ rt = <<>> /\ sm = <<>> /\ s = <<>> /\ dmu = <<>>
    /\ gpc = "idle"

InitTasks ==
    /\ FluxRiemann = [c \in AllCells |-> ZeroVec]
    /\ cMax = [c \in AllCells |-> ZERO_F]
    /\ tpc = [t \in KernelRange |-> "idle"]
    /\ tvL = [t \in KernelRange |-> ZeroVec]
    /\ tvR = [t \in KernelRange |-> ZeroVec]
    /\ accessLog = {}
    /\ nWrites = [c \in AllCells |-> [Flux |-> 0, cMax |-> 0]]

\* one cell per axis; the first face holds (L, R), every other cell (R, L)
InitFace ==
    /\ DIMENSIONS = 3
    /\ \E ph \in PhysConfigs : HAVE_ENERGY = ph.e /\ gamma = ph.g /\ C2Iso = ph.c
    /\ np_int = [d \in Dirs |-> 1]
    /\ nghost = [d \in Dirs |-> NGhost]
    /\ DIR \in Dirs
    /\ \E L \in PrimStates, Rs \in PrimStates :
        LET first == <<beg(KDIR), beg(JDIR), beg(IDIR)>>
        IN  /\ PrimL = [c \in AllCells |-> IF c = first THEN L ELSE Rs]
            /\ PrimR = [c \in AllCells |-> IF c = first THEN Rs ELSE L]
    /\ InitTasks
    /\ GeomIdle /\ JoinIdle /\ CtlIdle

\* any block of at most MaxFaces faces, filled from StateTable
InitSweep ==
    /\ DIMENSIONS \in 1 .. 3
    /\ \E ph \in PhysConfigs : HAVE_ENERGY = ph.e /\ gamma = ph.g /\ C2Iso = ph.c
    /\ np_int \in [Dirs -> 1 .. MaxNp]
    /\ \A d \in Dirs : d >= DIMENSIONS => np_int[d] = 1
    /\ nghost = [d \in Dirs |-> IF d < DIMENSIONS THEN NGhost ELSE 0]
    /\ DIR \in {d \in Dirs : d < DIMENSIONS}
    /\ Cardinality(KernelRange) <= MaxFaces
    /\ \E a \in {0, 2} :
        /\ PrimL = [c \in AllCells |->
                      StateTable[((a + c[3] + 2 * c[2] + 3 * c[1]) % Len(StateTable)) + 1]]
        /\ PrimR = [c \in AllCells |->
                      StateTable[((a + 1 + 2 * c[3] + c[2] + c[1]) % Len(StateTable)) + 1]]
    /\ InitTasks
    /\ GeomIdle /\ JoinIdle /\ CtlIdle

(***************************************************************************)
(* Initial states of MakeGeometry: the coordinate arrays of a grid.        *)
(***************************************************************************)
\* interior cells along an active axis
NpGeom == 2

Geometries == {"CARTESIAN", "CYLINDRICAL", "POLAR", "SPHERICAL"}

\* the left face of cell 0, and the spacings of the even and of the odd cells
Origins == [d \in Dirs |->
    IF d = IDIR THEN {R(-1), Rat(-1, 2), R(1)}
    ELSE IF d = JDIR THEN {R(0), Rat(1, 2)} ELSE {R(0)}]
Spacings == [d \in Dirs |->
    IF d = IDIR THEN {<<R(1), R(1)>>, <<R(1), R(2)>>}
    ELSE IF d = JDIR THEN {<<Rat(1, 2), Rat(1, 2)>>, <<Rat(1, 2), R(1)>>}
    ELSE {<<R(2), R(1)>>, <<R(1), R(2)>>}]

RECURSIVE Node(_, _, _)
Node(o, sp, i) == IF i = 0 THEN o ELSE RAdd(Node(o, sp, i - 1), sp[((i - 1) % 2) + 1])

SweepIdle ==
    /\ DIR = IDIR
    /\ PrimL = <<>> /\ PrimR = <<>> /\ FluxRiemann = <<>> /\ cMax = <<>>
    /\ tpc = <<>> /\ tvL = <<>> /\ tvR = <<>>
    /\ accessLog = {} /\ nWrites = <<>>

InitBlock ==
    /\ GEOMETRY \in Geometries
    /\ DIMENSIONS \in 1 .. (IF GEOMETRY = "CYLINDRICAL" THEN 2 ELSE 3)
    /\ HAVE_ENERGY = TRUE /\ gamma = Rat(5, 3) /\ C2Iso = R(1)
    /\ np_int = [d \in Dirs |-> IF d < DIMENSIONS THEN NpGeom ELSE 1]
    /\ nghost = [d \in Dirs |-> IF d < DIMENSIONS THEN NGhost ELSE 0]
    /\ \E o \in [Dirs -> UNION {Origins[d] : d \in Dirs}],
          sp \in [Dirs -> UNION {Spacings[d] : d \in Dirs}] :
        /\ \A d \in Dirs : o[d] \in Origins[d] /\ sp[d] \in Spacings[d]
        /\ xl = [d \in Dirs |-> [i \in 0 .. (np_tot(d) - 1) |-> Node(o[d], sp[d], i)]]
        /\ xr = [d \in Dirs |-> [i \in 0 .. (np_tot(d) - 1) |-> Node(o[d], sp[d], i + 1)]]
    /\ dx = [d \in Dirs |-> [i \in 0 .. (np_tot(d) - 1) |-> RSub(xr[d][i], xl[d][i])]]
    /\ x = [d \in Dirs |-> [i \in 0 .. (np_tot(d) - 1) |->
                RMul(HALF_F, RAdd(xl[d][i], xr[d][i]))]]
    /\ dV = [c \in AllCells |-> ZERO_F]
    /\ A = [d \in Dirs |-> [f \in FacesOf(d) |-> ZERO_F]]
    /\ xgc = [d \in Dirs |-> [i \in 0 .. (np_tot(d) - 1) |-> ZERO_F]]
    /\ rt = [i \in 0 .. (np_tot(IDIR) - 1) |-> ZERO_F]
    /\ sm = [j \in 0 .. (np_tot(JDIR) - 1) |-> ZERO_F]
    /\ s = [j \in 0 .. (np_tot(JDIR) - 1) |-> ZERO_F]
    /\ dmu = [j \in 0 .. (np_tot(JDIR) - 1) |-> ZERO_F]
    /\ gpc = "Volumes"
    /\ SweepIdle /\ CtlIdle

InitGeom == InitBlock /\ JoinIdle

\* the radial axis is split into two subdomains; the block of the first is built first
InitJoin ==
    /\ InitBlock
    /\ LET n == np_tot(IDIR) + np_int[IDIR]
           sp == <<dx[IDIR][0], dx[IDIR][1]>>
       IN  grid = [nproc |-> 2,
                   xl |-> [i \in 0 .. (n - 1) |-> Node(xl[IDIR][0], sp, i)],
                   xr |-> [i \in 0 .. (n - 1) |-> Node(xl[IDIR][0], sp, i + 1)]]
    /\ rank = 0
    /\ Aleft = <<>>

SpecGeom == InitGeom /\ [][MakeGeometry]_vars
SpecJoin == InitJoin /\ [][JoinNext]_vars
SpecFace == InitFace /\ [][SweepNext]_vars
SpecSweep == InitSweep /\ [][SweepNext]_vars

(***************************************************************************)
(* Initial states of an Input: a command line, a directory, an input file. *)
(***************************************************************************)
\* largest number of lines of an input file
MaxLines == 3

\* headers, parameters with and without values, comments, blank lines
Lines ==
    {<<"[", "A", "]">>, <<" ", "[", "B", "]", " ", "#", "x">>, <<"p", " ", "1", "\t", "2">>, <<"q", " ", "3", " ", "#", "4">>, <<"p", "#", "5">>, <<"#", "[", "A", "]">>, <<" ", " ", "#", "p", " ", "1">>, <<"[", "A">>}

CommandLines ==
    LET prog == <<"i", "d", "e", "f", "i", "x">>
        r == Str.optRestart
    IN  {<<prog>>, <<prog, r>>, <<prog, r, <<"7">>>>, <<prog, r, <<"0", "0", "1", "2">>, Str.optI, <<"b">>>>,
         <<prog, r, Str.optI, <<"b">>>>, <<prog, Str.optI, <<"b">>, r>>, <<prog, Str.optI>>,
         <<prog, Str.optI, <<"c">>>>, <<prog, Str.optDec, <<"2">>>>,
         <<prog, Str.optDec, <<"2">>, <<"2">>>>, <<prog, <<"-", "v">>>>}

\* the current directory, in the order readdir lists it
Directories ==
    {<<<<".">>, <<".", ".">>, Str.ini>>,
     <<<<"d", "u", "m", "p", ".", "0", "0", "0", "3", ".", "d", "m", "p">>, <<"d", "u", "m", "p", ".", "0", "0", "1", "0", ".", "d", "m", "p">>, Str.ini, <<"d", "u", "m", "p", ".", "0", "0", "0", "7", ".", "d", "m", "p">>>>,
     <<<<"d", "u", "m", "p", ".", "0", "0", "0", "0", ".", "d", "m", "p">>, <<"d", "a", "t", "a", ".", "0", "0", "4", "2", ".", "v", "t", "k">>>>,
     <<<<"d", "a", "t", "a", ".", "0", "0", "0", "5", ".", "v", "t", "k">>, <<"b">>>>,
     <<<<"d", "u", "m", "p", ".", "0", "0", "0", "3", ".", "d", "m", "p">>, <<"a", ".", "d", "m", "p">>>>}

\* the entries the solver asks for
Queries ==
    {<<<<"A">>, <<"p">>>>, <<<<"A">>, <<"q">>>>, <<<<"B">>, <<"p">>>>, <<<<"B", "]">>, <<"q">>>>,
     <<Str.CommandLine, Str.restart>>, <<Str.CommandLine, <<"p">>>>}

\* a call of CheckEntry on the constructed Input
CallCheckEntry ==
    /\ ipc = "done"
    /\ \E q \in Queries :
        LET r == CheckEntry(q[1], q[2])
        IN  /\ ceArgs' = <<q[1], q[2], inputParameters>>
            /\ ceResult' = r.result
            /\ inputParameters' = r.params
    /\ UNCHANGED <<gridVars, sweepVars, geomVars, joinVars, vtkVars, abortVars, WITH_MPI, argv,
                   dirFiles, fileLines, inputFileName, restartRequested,
                   restartFileNumber, haveBlock, blockName, paramName, lineNo, ipc,
                   errorMsg>>

InputNext == ParseCommandLine \/ ReadLine \/ CloseFile \/ CallCheckEntry

\* either a bare command line and any file, or any command line and a two-line file
InitInput ==
    /\ \/ /\ argv = <<<<"i", "d", "e", "f", "i", "x">>>>
          /\ dirFiles \in {d \in Directories : Len(d) = 2}
          /\ fileLines \in UNION {[1 .. n -> Lines] : n \in 0 .. MaxLines}
          /\ WITH_MPI = FALSE /\ DIMENSIONS = 1
       \/ /\ argv \in CommandLines
          /\ dirFiles \in Directories
          /\ fileLines = <<<<"[", "A", "]">>, <<"p", " ", "1", "\t", "2">>>>
          /\ WITH_MPI \in BOOLEAN /\ DIMENSIONS \in 1 .. 2
    /\ HAVE_ENERGY = TRUE /\ gamma = Rat(5, 3) /\ C2Iso = R(1)
    /\ np_int = [d \in Dirs |-> 1]
    /\ nghost = [d \in Dirs |-> 0]
    /\ inputParameters = <<>>
    /\ inputFileName = <<>> /\ restartRequested = FALSE /\ restartFileNumber \in {0, 99}
    /\ haveBlock = FALSE /\ blockName = <<>> /\ paramName = <<>>
    /\ lineNo = 0 /\ ipc = "ParseCommandLine" /\ errorMsg = ""
    /\ ceArgs = <<>> /\ ceResult = 0
    /\ SweepIdle /\ GeomIdle /\ JoinIdle /\ AbortIdle /\ VtkIdle

SpecInput == InitInput /\ [][InputNext]_vars

\* the processes are in the time loop, the flag as its definition initialises it
InitAbort ==
    /\ WITH_MPI \in BOOLEAN
    /\ argv = <<>> /\ dirFiles = <<>> /\ fileLines = <<>>
    /\ inputParameters = <<>>
    /\ inputFileName = <<>> /\ restartRequested = FALSE /\ restartFileNumber = 0
    /\ haveBlock = FALSE /\ blockName = <<>> /\ paramName = <<>>
    /\ lineNo = 0 /\ ipc = "done" /\ errorMsg = ""
    /\ ceArgs = <<>> /\ ceResult = 0
    /\ DIMENSIONS = 1
    /\ HAVE_ENERGY = TRUE /\ gamma = Rat(5, 3) /\ C2Iso = R(1)
    /\ np_int = [d \in Dirs |-> 1]
    /\ nghost = [d \in Dirs |-> 0]
    /\ abortRequested = [p \in Procs |-> FALSE]
    /\ apc = [p \in Procs |-> "run"]
    /\ abortValue = [p \in Procs |-> 0]
    /\ returnValue = [p \in Procs |-> FALSE]
    /\ signalled = {}
    /\ enteredWith = [p \in Procs |-> <<>>]
    /\ nCalls = [p \in Procs |-> 0]
    /\ SweepIdle /\ GeomIdle /\ JoinIdle /\ VtkIdle

SpecAbort == InitAbort /\ [][AbortNext]_vars

\* the subdomains along each active direction: at most NProcs processes in all
Decompositions ==
    {n \in [Dirs -> 1 .. NProcs] :
        /\ \A d \in Dirs : d >= DIMENSIONS => n[d] = 1
        /\ n[IDIR] * n[JDIR] * n[KDIR] <= (IF WITH_MPI THEN NProcs ELSE 1)}

\* every process has built its data block and not yet its Vtk object
\* (the first file number is set outside vtk.cpp; files are numbered from 0 here)
InitVtk ==
    /\ WITH_MPI \in BOOLEAN
    /\ argv = <<>> /\ dirFiles = <<>> /\ fileLines = <<>>
    /\ inputParameters = <<>>
    /\ inputFileName = <<>> /\ restartRequested = FALSE /\ restartFileNumber = 0
    /\ haveBlock = FALSE /\ blockName = <<>> /\ paramName = <<>>
    /\ lineNo = 0 /\ ipc = "done" /\ errorMsg = ""
    /\ ceArgs = <<>> /\ ceResult = 0
    /\ DIMENSIONS \in 1 .. 3
    /\ HAVE_ENERGY = FALSE /\ gamma = Rat(5, 3) /\ C2Iso = R(1)
    /\ np_int = [d \in Dirs |-> IF d < DIMENSIONS THEN d + 2 ELSE 1]
    /\ nghost = [d \in Dirs |-> IF d < DIMENSIONS THEN NGhost ELSE 0]
    /\ SweepIdle /\ JoinIdle /\ AbortIdle
    /\ GEOMETRY \in {"CARTESIAN", "CYLINDRICAL", "POLAR", "SPHERICAL"}
    /\ x = <<>> /\ dx = <<>> /\ xl = <<>> /\ xr = <<>> /\ dV = <<>> /\ A = <<>>
    /\ xgc = <<>> /\ rt = <<>> /\ sm = <<>> /\ s = <<>> /\ dmu = <<>> /\ gpc = "idle"
    /\ nproc \in Decompositions
    /\ nodeView = [xproc \in Ranks |-> <<>>]
    /\ view = [xproc \in Ranks |-> <<>>]
    /\ offset = [xproc \in Ranks |-> 0]
    /\ vtkFileNumber = [xproc \in Ranks |-> 0]
    /\ vpc = [xproc \in Ranks |-> -1]
    /\ vlog = [xproc \in Ranks |-> <<>>]

SpecVtk == InitVtk /\ [][VtkNext]_vars
(***************************************************************************)
(* Properties of the TVDLF sweep.                                          *)
(***************************************************************************)
Tasks == DOMAIN tpc
FaceDone(t) == tpc[t] = "done"
AllDone == \A t \in Tasks : FaceDone(t)

Xn == XnOf(DIR)
ConsOf(v) == K_PrimToCons(v, RSub(gamma, ONE_F))
PhysFlux(v) == K_Flux(v, ConsOf(v), C2Iso, Xn)
\* the sound speed of a state
SoundOf(v) ==
    IF HAVE_ENERGY THEN SQRT(RMul(gamma, RDiv(v[PRS], v[RHO]))) ELSE SQRT(C2Iso)
\* the largest characteristic speed |v_n| + c of a state
SignalSpeed(v) == RAdd(FABS(v[Xn]), SoundOf(v))
SumOf(vL, vR) == [nv \in Comps |-> RAdd(vL[nv], vR[nv])]
\* the component-wise average, a function of the component-wise sum alone
MeanOf(vL, vR) == LET sum == SumOf(vL, vR) IN [nv \in Comps |-> RDiv(sum[nv], R(2))]

\* C1 as stated: at every visited face the flux is
\* 0.5*(fluxL + fluxR) - cmax*(uR - uL), the dissipation entering with coefficient 1.
C1_FullDissipation ==
    \A t \in Tasks : FaceDone(t) =>
        \A nv \in Comps :
            FluxRiemann[t][nv] =
                RSub(RMul(HALF_F, RAdd(PhysFlux(PrimL[t])[nv], PhysFlux(PrimR[t])[nv])),
                     RMul(cMax[t], RSub(ConsOf(PrimR[t])[nv], ConsOf(PrimL[t])[nv])))

\* C1 amended: at every visited face and for every component the flux is
\* 0.5*(fluxL + fluxR) - 0.5*cmax*(uR - uL): the dissipation enters with coefficient 1/2.
C1_HalfDissipation ==
    \A t \in Tasks : FaceDone(t) =>
        \A nv \in Comps :
            FluxRiemann[t][nv] =
                RSub(RMul(HALF_F, RAdd(PhysFlux(PrimL[t])[nv], PhysFlux(PrimR[t])[nv])),
                     RMul(RMul(HALF_F, cMax[t]),
                          RSub(ConsOf(PrimR[t])[nv], ConsOf(PrimL[t])[nv])))

C1_Witness ==
    \E t \in Tasks :
        /\ FaceDone(t)
        /\ cMax[t] # ZERO_F
        /\ \E nv \in Comps : ConsOf(PrimR[t])[nv] # ConsOf(PrimL[t])[nv]

\* C2: at a face whose left and right states are both A, the flux is the physical
\* flux of A in every component and the wave speed is |v_n| + c of A.
C2_EqualStates ==
    \A t \in Tasks : (FaceDone(t) /\ PrimL[t] = PrimR[t]) =>
        /\ FluxRiemann[t] = PhysFlux(PrimL[t])
        /\ cMax[t] = SignalSpeed(PrimL[t])

C2_Witness ==
    \E t \in Tasks :
        /\ FaceDone(t)
        /\ PrimL[t] = PrimR[t]
        /\ PrimL[t][Xn] # ZERO_F

\* C3: the wave speed of a face is max(|v + c|, |v - c|) of the component-wise average
\* of the left and right states, so that two faces whose left and right states have
\* the same component-wise sum (swapped states among them) get the same wave speed.
C3_SpeedOfAverage ==
    /\ \A t \in Tasks : FaceDone(t) =>
        LET m == MeanOf(PrimL[t], PrimR[t])
            c == SoundOf(m)
        IN  cMax[t] = FMAX(FABS(RAdd(m[Xn], c)), FABS(RSub(m[Xn], c)))
    /\ \A t1, t2 \in Tasks :
        (/\ FaceDone(t1) /\ FaceDone(t2)
         /\ SumOf(PrimL[t1], PrimR[t1]) = SumOf(PrimL[t2], PrimR[t2]))
        => cMax[t1] = cMax[t2]

C3_Witness ==
    \E t1, t2 \in Tasks :
        /\ FaceDone(t1) /\ FaceDone(t2)
        /\ PrimL[t1] = PrimR[t2] /\ PrimR[t1] = PrimL[t2]
        /\ SignalSpeed(PrimL[t1]) # SignalSpeed(PrimR[t1])

\* C4 as stated: the wave speed of a face bounds the characteristic speeds of both
\* adjacent states.
C4_BoundsBothStates ==
    \A t \in Tasks : FaceDone(t) =>
        /\ RLe(SignalSpeed(PrimL[t]), cMax[t])
        /\ RLe(SignalSpeed(PrimR[t]), cMax[t])

\* C4 amended: the wave speed of a face bounds the characteristic speeds |v_n + c| and
\* |v_n - c| of the component-wise average of the two adjacent states (and so of both
\* states when they are equal).
C4_BoundsAverage ==
    \A t \in Tasks : FaceDone(t) =>
        LET m == MeanOf(PrimL[t], PrimR[t])
            c == SoundOf(m)
        IN  /\ RLe(FABS(RAdd(m[Xn], c)), cMax[t])
            /\ RLe(FABS(RSub(m[Xn], c)), cMax[t])
            /\ PrimL[t] = PrimR[t] => RLe(SignalSpeed(PrimL[t]), cMax[t])

C4_Witness ==
    \E t \in Tasks :
        /\ FaceDone(t)
        /\ PrimL[t] # PrimR[t]
        /\ RLt(cMax[t], SignalSpeed(PrimL[t]))
        /\ MeanOf(PrimL[t], PrimR[t])[Xn] # ZERO_F

\* the index set of a sweep along DIR: beg..end inclusive along DIR, beg..end-1 across
FaceSet ==
    {<<k, j, i>> \in AllCells :
        /\ k >= beg(KDIR) /\ k <= (IF DIR = KDIR THEN end(KDIR) ELSE end(KDIR) - 1)
        /\ j >= beg(JDIR) /\ j <= (IF DIR = JDIR THEN end(JDIR) ELSE end(JDIR) - 1)
        /\ i >= beg(IDIR) /\ i <= (IF DIR = IDIR THEN end(IDIR) ELSE end(IDIR) - 1)}

FluxWritten == {c \in AllCells : nWrites[c].Flux > 0}
cMaxWritten == {c \in AllCells : nWrites[c].cMax > 0}

\* C5: a sweep along DIR visits exactly the indices that range over beg..end inclusive
\* along DIR and over beg..end-1 along the two other directions: one more face than
\* cells along DIR; Flux and cMax are written at every such index and at no other.
C5_SweepIndexSet ==
    /\ Tasks = FaceSet
    /\ Cardinality(Tasks) = (np_int[DIR] + 1) * np_int[(DIR + 1) % 3] * np_int[(DIR + 2) % 3]
    /\ FluxWritten \subseteq FaceSet
    /\ cMaxWritten \subseteq FaceSet
    /\ AllDone => (FluxWritten = FaceSet /\ cMaxWritten = FaceSet)

C5_Witness ==
    /\ AllDone
    /\ DIMENSIONS >= 2
    /\ \E d \in Dirs : d # DIR /\ np_int[d] >= 2
    /\ FaceSet # AllCells

\* C6: within a sweep every Flux and cMax entry is stored at most once, by the
\* face-task of the same index, and exactly once when the sweep is over; no two
\* face-tasks store to the same location and no face-task loads a location that
\* another face-task stores to.
C6_SingleWriter ==
    /\ \A c \in AllCells : nWrites[c].Flux <= 1 /\ nWrites[c].cMax <= 1
    /\ \A a \in accessLog : a[2] = "w" => a[4] = a[1]
    /\ \A a, b \in accessLog :
        (a[2] = "w" /\ a[1] # b[1]) => ~(a[3] = b[3] /\ a[4] = b[4])
    /\ AllDone =>
        \A c \in AllCells :
            /\ nWrites[c].Flux = (IF c \in Tasks THEN 1 ELSE 0)
            /\ nWrites[c].cMax = (IF c \in Tasks THEN 1 ELSE 0)

C6_Witness ==
    /\ AllDone
    /\ Cardinality(Tasks) >= 3
    /\ \E a, b \in accessLog : a[2] = "w" /\ b[2] = "r" /\ a[1] # b[1]

\* the face-tasks of a sweep in the order of the serial loop nest (k, then j, then i)
NumK == end(KDIR) + koffset - beg(KDIR)
NumJ == end(JDIR) + joffset - beg(JDIR)
NumI == end(IDIR) + ioffset - beg(IDIR)
SerialTask(n) ==
    <<beg(KDIR) + (n \div (NumJ * NumI)), beg(JDIR) + ((n \div NumI) % NumJ),
      beg(IDIR) + (n % NumI)>>

\* the Flux and cMax arrays after face-tasks n, n+1, ... ran one after the other
RECURSIVE SerialSweep(_, _, _)
SerialSweep(n, F, C) ==
    IF n >= NumK * NumJ * NumI THEN [Flux |-> F, cMax |-> C]
    ELSE LET t == SerialTask(n)
             at == ReadIndex(t[1], t[2], t[3])
             st == StoreFace(F, C, t, PrimL[at], PrimR[at])
         IN  SerialSweep(n + 1, st.Flux, st.cMax)

\* C7: when a sweep is over, Flux and cMax are what the serial loop nest produces from
\* the same PrimL and PrimR, whatever the order and interleaving of the face-tasks.
C7_OrderIndependent ==
    AllDone =>
        LET ser == SerialSweep(0, [c \in AllCells |-> ZeroVec], [c \in AllCells |-> ZERO_F])
        IN  FluxRiemann = ser.Flux /\ cMax = ser.cMax

C7_Witness ==
    /\ AllDone
    /\ Cardinality(Tasks) >= 3
    /\ \E t1, t2 \in Tasks : cMax[t1] # cMax[t2]

\* the state v seen under the opposite normal convention: its normal velocity negated
Mirror(v) == [v EXCEPT ![Xn] = RNeg(@)]
\* the flux of the face whose left state is the mirror of R and right state the mirror of L
MirrorFlux(vL, vR) == TVDLF_Kernel(Mirror(vR), Mirror(vL)).flux

\* C16 as stated: for every component, the flux for (L, R) is the negative of the flux
\* for (R, L) taken under the opposite normal convention (normal velocities negated).
C16_AntisymmetricEveryComponent ==
    \A t \in Tasks : FaceDone(t) =>
        \A nv \in Comps : FluxRiemann[t][nv] = RNeg(MirrorFlux(PrimL[t], PrimR[t])[nv])

\* C16 amended: the flux for (L, R) is the negative of the flux for (R, L) under the
\* opposite normal convention in the density, transverse momentum and energy
\* components; the normal momentum component, itself a component along the negated
\* normal, is equal and not opposite.
C16_AntisymmetricButNormalMomentum ==
    \A t \in Tasks : FaceDone(t) =>
        LET G == MirrorFlux(PrimL[t], PrimR[t])
        IN  \A nv \in Comps :
                FluxRiemann[t][nv] = IF nv = Xn THEN G[nv] ELSE RNeg(G[nv])

C16_Witness ==
    \E t \in Tasks :
        /\ FaceDone(t)
        /\ PrimL[t] # PrimR[t]
        /\ PrimL[t][Xn] # RNeg(PrimR[t][Xn])
        /\ \A nv \in Comps : FluxRiemann[t][nv] # ZERO_F

(***************************************************************************)
(* Properties of MakeGeometry.                                             *)
(***************************************************************************)
GeomDone == gpc = "done"

\* the index of a cell or face along direction d
Along(c, d) == c[3 - d]
\* the cell or face one step further along d
Shift(c, d) == [c EXCEPT ![3 - d] = @ + 1]
Active(d) == d < DIMENSIONS

InteriorCells == {c \in AllCells : \A d \in Dirs : Along(c, d) >= beg(d) /\ Along(c, d) < end(d)}

\* the spacing of c along e if e is active and is not d, and 1 otherwise
SpacingFactor(c, e, d) == IF Active(e) /\ e # d THEN dx[e][Along(c, e)] ELSE ONE_F
\* the product of the spacings at c of the active axes other than d (d = 3: of all)
SpacingProduct(c, d) ==
    RMul(SpacingFactor(c, IDIR, d), RMul(SpacingFactor(c, JDIR, d), SpacingFactor(c, KDIR, d)))

\* C8: in Cartesian geometry the volume of every cell, ghost cells included, is the
\* product of the spacings of the active axes, and every face area A[d] is the product
\* of the spacings of the active axes orthogonal to d; an inactive axis contributes 1.
C8_CartesianVolumesAreas ==
    (GeomDone /\ GEOMETRY = "CARTESIAN") =>
        /\ \A c \in AllCells : dV[c] = SpacingProduct(c, 3)
        /\ \A d \in Dirs : \A f \in FacesOf(d) : A[d][f] = SpacingProduct(f, d)

C8_Witness ==
    /\ GeomDone
    /\ GEOMETRY = "CARTESIAN"
    /\ DIMENSIONS = 2
    /\ dx[KDIR][0] # ONE_F
    /\ \E c \in AllCells : Along(c, IDIR) < beg(IDIR) /\ dV[c] # ONE_F

\* the components of a uniform vector field
FieldValues == {R(-1), R(2), Rat(1, 2)}
Fields == [Dirs -> FieldValues]

\* the area-weighted flux of F through the two faces that bound cell c along d
FaceTerm(c, d, F) ==
    IF Active(d)
    THEN RSub(RMul(A[d][Shift(c, d)], F[d]), RMul(A[d][c], F[d]))
    ELSE ZERO_F
\* the signed sum over the faces that bound cell c
DivSum(c, F) == RAdd(FaceTerm(c, IDIR, F), RAdd(FaceTerm(c, JDIR, F), FaceTerm(c, KDIR, F)))

\* C9: in Cartesian geometry the signed sum of faceArea times the normal component of
\* a uniform field over the faces that bound an interior cell is zero, and the areas
\* A[d] of the two faces that bound a cell along an active direction d are equal.
C9_CartesianDivergenceFree ==
    (GeomDone /\ GEOMETRY = "CARTESIAN") =>
        \A c \in InteriorCells :
            /\ \A F \in Fields : DivSum(c, F) = ZERO_F
            /\ \A d \in Dirs : Active(d) => A[d][Shift(c, d)] = A[d][c]

C9_Witness ==
    /\ GeomDone
    /\ GEOMETRY = "CARTESIAN"
    /\ DIMENSIONS = 3
    /\ \A d \in Dirs : dx[d][beg(d)] # dx[d][beg(d) + 1]

\* C10 as stated: in every geometry the signed sum of the area-weighted fluxes of a
\* uniform field over the faces that bound a cell is zero.
C10_DivergenceFreeEveryGeometry ==
    GeomDone => \A c \in InteriorCells : \A F \in Fields : DivSum(c, F) = ZERO_F

\* C10 amended: the sum is zero in Cartesian geometry; in cylindrical and polar geometry
\* only the x2 and x3 faces cancel and the sum is the radial term
\* (A1(i+1) - A1(i))*F1; in spherical geometry only the x3 faces cancel and the sum is
\* the radial term plus the polar term (A2(j+1) - A2(j))*F2.
C10_DivergenceByGeometry ==
    GeomDone =>
        \A c \in InteriorCells : \A F \in Fields :
            DivSum(c, F) =
                CASE GEOMETRY = "CARTESIAN" -> ZERO_F
                  [] GEOMETRY \in {"CYLINDRICAL", "POLAR"} -> FaceTerm(c, IDIR, F)
                  [] GEOMETRY = "SPHERICAL" ->
                        RAdd(FaceTerm(c, IDIR, F), FaceTerm(c, JDIR, F))

C10_Witness ==
    /\ GeomDone
    /\ GEOMETRY = "SPHERICAL"
    /\ DIMENSIONS = 3
    /\ dx[KDIR][beg(KDIR)] # dx[KDIR][beg(KDIR) + 1]
    /\ \E c \in InteriorCells : \E F \in Fields :
        /\ FaceTerm(c, IDIR, F) # ZERO_F
        /\ FaceTerm(c, JDIR, F) # ZERO_F
        /\ DivSum(c, F) # ZERO_F

VolumesDone == gpc \notin {"idle", "Volumes"}

\* C11 as stated: in every geometry, for strictly increasing coordinate arrays, the
\* volume of every cell, ghost cells included, is strictly positive, also when the
\* radial coordinates are negative or a cell straddles zero.
C11_VolumesPositive ==
    VolumesDone => \A c \in AllCells : RLt(ZERO_F, dV[c])

\* the area of the x1 face f whose radial factor is taken at radius r
AreaFromRadius(r, f) ==
    CASE GEOMETRY = "CYLINDRICAL" ->
            RMul(FABS(r), IF Active(JDIR) THEN dx[JDIR][f[2]] ELSE ONE_F)
      [] GEOMETRY = "POLAR" -> RMul(FABS(r), SpacingProduct(f, IDIR))
      [] GEOMETRY = "SPHERICAL" ->
            RMul(RMul(r, r),
                 RMul(IF Active(JDIR)
                      THEN FABS(RSub(cos(xl[JDIR][f[2]]), cos(xr[JDIR][f[2]])))
                      ELSE ONE_F,
                      IF Active(KDIR) THEN dx[KDIR][f[1]] ELSE ONE_F))

Curvilinear == GEOMETRY \in {"CYLINDRICAL", "POLAR", "SPHERICAL"}

JoinFaces == {f \in FacesOf(IDIR) : f[3] = beg(IDIR)}
SeenFromLeft(f) == <<f[1], f[2], end(IDIR)>>

\* C13: when the radial axis is split into two abutting subdomains with ghost cells,
\* the area the left subdomain gives the right face of its last interior cell equals
\* the area the right subdomain gives the left face of its first interior cell, in
\* cylindrical, polar and spherical geometry.
C13_JoinContinuous ==
    (GeomDone /\ rank = 1 /\ Curvilinear) =>
        \A f \in JoinFaces : A[IDIR][f] = Aleft[SeenFromLeft(f)]

C13_Witness ==
    /\ GeomDone /\ rank = 1
    /\ GEOMETRY = "SPHERICAL"
    /\ DIMENSIONS = 2
    /\ xl[IDIR][beg(IDIR)] = grid.xr[end(IDIR) - 1]
    /\ \E f \in JoinFaces :
        /\ A[IDIR][f] # ZERO_F
        /\ Aleft[SeenFromLeft(f)] # Aleft[<<f[1], f[2], np_tot(IDIR)>>]

\* C14 as stated: every quantity derived from xr^2 - xl^2 or xr^3 - xl^3 (the
\* cylindrical, polar and spherical volumes and the spherical mean radius rt) takes
\* the absolute value of the difference, so that it is non-negative whatever the sign
\* of the radial coordinates.
C14_RadialTermsNonNegative ==
    GeomDone =>
        /\ \A c \in AllCells : RLe(ZERO_F, dV[c])
        /\ GEOMETRY = "SPHERICAL" =>
            \A i \in DOMAIN rt : IsFinite(rt[i]) => RLe(ZERO_F, rt[i])

\* three times the volume of the unit-thickness shells that start at radius 1, 2, 3, 4
ShellVolumes == <<7, 19, 37, 61>>

\* C15: in 1D spherical geometry the volume of cell i is |xr(i)^3 - xl(i)^3| / 3,
\* the inactive axes contributing a factor 1; the cells [1,2], [2,3], [3,4], [4,5]
\* have 3*dV = 7, 19, 37, 61.
C15_SphericalShells ==
    (VolumesDone /\ GEOMETRY = "SPHERICAL" /\ DIMENSIONS = 1) =>
        \A c \in AllCells :
            LET l == xl[IDIR][c[3]]
                r == xr[IDIR][c[3]]
            IN  /\ dV[c] = RDiv(FABS(RSub(RMul(r, RMul(r, r)), RMul(l, RMul(l, l)))), R(3))
                /\ \A n \in 1 .. 4 :
                    (l = R(n) /\ r = R(n + 1)) => RMul(R(3), dV[c]) = R(ShellVolumes[n])

C15_Witness ==
    /\ VolumesDone /\ GEOMETRY = "SPHERICAL" /\ DIMENSIONS = 1
    /\ np_tot(IDIR) = 4
    /\ \A i \in 0 .. 3 :
        /\ xl[IDIR][i] = R(i + 1) /\ xr[IDIR][i] = R(i + 2)
        /\ RMul(R(3), dV[<<0, 0, i>>]) = R(ShellVolumes[i + 1])

(***************************************************************************)
(* Properties of Input.                                                    *)
(***************************************************************************)
\* C17: CheckEntry(block, param) returns -1 when the block or the parameter is
\* absent and the number of stored values otherwise, it leaves the stored
\* parameters as they were, and every entry the parser has stored holds at least one
\* value, so that a returned count is never 0.
C17_CheckEntry ==
    /\ \A b \in DOMAIN inputParameters : \A p \in DOMAIN inputParameters[b] :
          Len(inputParameters[b][p]) >= 1
    /\ ceArgs # <<>> =>
          LET before == ceArgs[3]
              present == ceArgs[1] \in DOMAIN before /\ ceArgs[2] \in DOMAIN before[ceArgs[1]]
          IN  /\ inputParameters = before
              /\ ceResult = IF present THEN Len(before[ceArgs[1]][ceArgs[2]]) ELSE -1
              /\ ceResult # 0

\* a file names p without a value in block A and p with two values nowhere; the
\* solver asks for A.p and is told -1
C17_Witness ==
    /\ ceArgs # <<>> /\ ceArgs[1] = <<"A">> /\ ceArgs[2] = <<"p">>
    /\ fileLines = <<<<"[", "A", "]">>, <<"p", "#", "5">>, <<"q", " ", "3", " ", "#", "4">>>>
    /\ <<"A">> \in DOMAIN inputParameters
    /\ ceResult = -1

\* the text of a line of the file before its first '#'
Strip(l) ==
    SubSeq(l, 1, CHOOSE n \in 0 .. Len(l) :
                    /\ n = Len(l) \/ l[n + 1] = "#"
                    /\ \A c \in 1 .. n : l[c] # "#")

\* the words of line j of the file, comments apart
Words(j) == Tokens(Strip(fileLines[j]))

\* line j opens a block: its first character after the leading spaces is '['
IsHeader(j) ==
    \E c \in 1 .. Len(Strip(fileLines[j])) :
        /\ Strip(fileLines[j])[c] = "["
        /\ \A e \in 1 .. (c - 1) : Strip(fileLines[j])[e] = " "

\* the name under which the header of line j opens its block
HeaderName(j) ==
    ParseLine([ip |-> <<>>, haveBlock |-> FALSE, blockName |-> <<>>, paramName |-> <<>>,
               err |-> ""], fileLines[j]).blockName

\* the headers before line j, and the block that is open at line j
HeadersBefore(j) == {h \in 1 .. (j - 1) : IsHeader(h)}
OpenAt(j) == HeaderName(CHOOSE h \in HeadersBefore(j) : \A g \in HeadersBefore(j) : g <= h)

\* the values the first k lines give parameter p of block b, in the order of the file
RECURSIVE Values(_, _, _)
Values(b, p, k) ==
    IF k <= 0 THEN <<>>
    ELSE Values(b, p, k - 1) \o
         (IF /\ ~IsHeader(k) /\ Words(k) # <<>> /\ Head(Words(k)) = p
             /\ HeadersBefore(k) # {} /\ OpenAt(k) = b
          THEN Tail(Words(k)) ELSE <<>>)

\* the lines the parser has gone through without an error
Parsed == IF ipc = "error" THEN lineNo - 1 ELSE lineNo

\* C18: a line that holds something other than a comment, is not a block header and
\* comes before the first block header ends the parsing with an error and nothing
\* of the file stored; what is stored for a parameter is, under the block opened
\* last before each of its lines, the values of these lines in their order, read
\* from the text before the first '#' only.
C18_FileParsing ==
    ipc \in {"getline", "done", "error"} =>
        /\ \A j \in 1 .. lineNo :
              (Words(j) # <<>> /\ ~IsHeader(j) /\ HeadersBefore(j) = {}) =>
                  /\ ipc = "error" /\ lineNo = j
                  /\ errorMsg = "Input file must specify a block name before the first parameter"
                  /\ DOMAIN inputParameters \subseteq {Str.CommandLine}
        /\ \A b \in (DOMAIN inputParameters \cup {HeaderName(h) : h \in HeadersBefore(lineNo + 1)})
                        \ {Str.CommandLine} :
              /\ b \in DOMAIN inputParameters => \A p \in DOMAIN inputParameters[b] :
                    inputParameters[b][p] = Values(b, p, Parsed)
              /\ \A j \in 1 .. Parsed : \A p \in {Head(w) : w \in {Words(j)} \ {<<>>}} :
                    Values(b, p, Parsed) # <<>> =>
                        /\ b \in DOMAIN inputParameters /\ p \in DOMAIN inputParameters[b]
                        /\ inputParameters[b][p] = Values(b, p, Parsed)

\* two blocks are opened, the second with a comment on its line; q, given as
\* "q 3 #4", is stored with the one value 3 under the second block and not under A
C18_Witness ==
    /\ ipc = "done"
    /\ fileLines = <<<<"[", "A", "]">>, <<" ", "[", "B", "]", " ", "#", "x">>,
                     <<"q", " ", "3", " ", "#", "4">>>>
    /\ <<"A">> \notin DOMAIN inputParameters
    /\ \E b \in DOMAIN inputParameters :
          DOMAIN inputParameters[b] = {<<"q">>} /\ inputParameters[b][<<"q">>] = <<<<"3">>>>

\* the files of the directory whose name ends in ".dmp"
DmpFiles ==
    {n \in 1 .. Len(dirFiles) :
        Len(dirFiles[n]) >= 4
        /\ SubSeq(dirFiles[n], Len(dirFiles[n]) - 3, Len(dirFiles[n])) = <<".", "d", "m", "p">>}

Digit(c) == CHOOSE d \in 0 .. 9 : Str.digits[d + 1] = c

\* the dump files "dump.NNNN.dmp" among them, and the number NNNN of such a file
Dumps ==
    {n \in DmpFiles :
        /\ Len(dirFiles[n]) = 13
        /\ SubSeq(dirFiles[n], 1, 5) = <<"d", "u", "m", "p", ".">>
        /\ \A c \in 6 .. 9 : \E d \in 1 .. 10 : Str.digits[d] = dirFiles[n][c]}
DumpNumber(n) ==
    1000 * Digit(dirFiles[n][6]) + 100 * Digit(dirFiles[n][7])
        + 10 * Digit(dirFiles[n][8]) + Digit(dirFiles[n][9])

\* the restart parameter recorded from the command line, <<>> when there is none
RestartRecorded ==
    IF Str.CommandLine \in DOMAIN inputParameters
       /\ Str.restart \in DOMAIN inputParameters[Str.CommandLine]
    THEN inputParameters[Str.CommandLine][Str.restart] ELSE <<>>

\* ParseCommandLine is over and "-restart" was read as an option at position k of argv
RestartOption(k) ==
    /\ ipc \in {"getline", "done", "error"}
    /\ k \in 2 .. Len(argv) /\ argv[k] = Str.optRestart
    /\ k = 2 \/ (k = 4 /\ argv[2] = Str.optI)

\* C20 as stated: with "-restart" as the last argument, restartRequested is set and
\* restartFileNumber is the highest dump number among the files with extension dmp
\* of the directory, or, when there is no such file, the error "Cannot restart: no
\* dumpfile found." is raised and no restart parameter is recorded; with an argument
\* after "-restart", that argument is recorded and read as the dump number.
C20_Restart ==
    \A k \in 2 .. Len(argv) : RestartOption(k) =>
        IF k = Len(argv)
        THEN IF DmpFiles = {}
             THEN /\ ipc = "error" /\ errorMsg = "Cannot restart: no dumpfile found."
                  /\ RestartRecorded = <<>>
             ELSE /\ restartRequested
                  /\ \E n \in Dumps :
                        /\ restartFileNumber = DumpNumber(n)
                        /\ \A o \in Dumps : DumpNumber(o) <= DumpNumber(n)
        ELSE /\ RestartRecorded = <<argv[k + 1]>>
             /\ restartRequested
             /\ stoi(argv[k + 1]).ok => restartFileNumber = stoi(argv[k + 1]).value

(***************************************************************************)
(* Properties of the abort flag.                                           *)
(***************************************************************************)
\* C19: once signalHandler has run on a process its abortRequested is true for
\* good, and a CheckForAbort the process calls afterwards returns true; with MPI a
\* CheckForAbort returns the same value on every process, true exactly when some
\* process had caught the signal before it entered that call.
C19_AbortLatched ==
    /\ \A p \in signalled : abortRequested[p]
    /\ \A p \in Procs : apc[p] = "returned" =>
          /\ enteredWith[p][nCalls[p]] => returnValue[p]
          /\ ~WITH_MPI => returnValue[p] = enteredWith[p][nCalls[p]]
          /\ WITH_MPI =>
                /\ \A q \in Procs : nCalls[q] >= nCalls[p]
                /\ \A q \in Procs : (apc[q] = "returned" /\ nCalls[q] = nCalls[p]) =>
                      returnValue[q] = returnValue[p]
                /\ returnValue[p] = (\E q \in Procs : enteredWith[q][nCalls[p]])

\* with MPI, process 1 caught the signal between its two calls and process 0 has
\* caught none: the first call returned false, the second returns true on process 0
C19_Witness ==
    /\ WITH_MPI
    /\ signalled = {1} /\ ~abortRequested[0]
    /\ nCalls = [p \in Procs |-> 2]
    /\ apc[0] = "returned" /\ returnValue[0]
    /\ enteredWith[1] = <<FALSE, TRUE>> /\ enteredWith[0] = <<FALSE, FALSE>>

\* the characters of line j strictly between its first '[' and the first ']' after it
BetweenBrackets(j) ==
    LET l == Strip(fileLines[j])
        o == CHOOSE c \in 1 .. Len(l) : l[c] = "[" /\ \A e \in 1 .. (c - 1) : l[e] # "["
        c == CHOOSE c \in (o + 1) .. Len(l) : l[c] = "]" /\ \A e \in (o + 1) .. (c - 1) : l[e] # "]"
    IN  SubSeq(l, o + 1, c - 1)

\* C23 as stated: when the line just parsed is a block header that has its ']', the
\* block name the parser holds is the text strictly between the '[' and the first
\* ']' after it, however many spaces precede the '['.
C23_BlockName ==
    (ipc = "getline" /\ lineNo >= 1 /\ IsHeader(lineNo)) =>
        blockName = BetweenBrackets(lineNo)

\* the faces along d of a block: one more than the cells along d
FacesAlong(d) ==
    {f \in (0 .. np_tot(KDIR)) \X (0 .. np_tot(JDIR)) \X (0 .. np_tot(IDIR)) :
        \A e \in Dirs : e # d => f[3 - e] < np_tot(e)}

\* C22: along each active direction d MakeGeometry gives an area to every face
\* 0 .. np_tot[d], and to do so it reads the per-axis arrays at indices within
\* 0 .. np_tot - 1 only: for the face np_tot along d it reads cell np_tot - 1.
C22_FacesWithinArrays ==
    GeomDone =>
        \A d \in 0 .. (DIMENSIONS - 1) :
            /\ DOMAIN A[d] = FacesAlong(d)
            /\ \A f \in FacesAlong(d) : \A r \in AreaReads(d, f[1], f[2], f[3]) :
                  /\ r[2] \in 0 .. (np_tot(r[1]) - 1)
                  /\ (r[1] = d /\ f[3 - d] = np_tot(d)) => r[2] = np_tot(d) - 1

\* a spherical block in two dimensions: the last face along x2 reads the last cell
\* of x2, and its area is the one the right edge of that cell gives
C22_Witness ==
    /\ GeomDone /\ GEOMETRY = "SPHERICAL" /\ DIMENSIONS = 2
    /\ <<JDIR, np_tot(JDIR) - 1>> \in AreaReads(JDIR, 0, np_tot(JDIR), 0)
    /\ <<0, np_tot(JDIR), 0>> \in DOMAIN A[JDIR]
    /\ A[JDIR][<<0, np_tot(JDIR), 0>>]
          = RMul(RMul(x1(0), dx1(0)), FABS(sin(x2p(np_tot(JDIR) - 1))))
    /\ A[JDIR][<<0, np_tot(JDIR), 0>>] # A[JDIR][<<0, np_tot(JDIR) - 1, 0>>]

(***************************************************************************)
(* Properties of the VTK output.                                           *)
(***************************************************************************)
\* the indices of the global array that a subarray type selects along dir;
\* position 2 - dir of a subarray is direction dir
Interval(v, dir) ==
    v.start[2 - dir] .. (v.start[2 - dir] + v.subsize[2 - dir] - 1)

\* the number of nodes (plus = 1) or of cells (plus = 0) of the domain along dir
GlobalExtent(dir, plus) ==
    nproc[dir] * np_int[dir] + (IF dir < DIMENSIONS THEN plus ELSE 0)

\* along every direction the subarrays views[xproc] are declared within the global
\* array, cover its range, and those of two subdomains at different places along
\* the direction share no index
Tiles(views, plus) ==
    \A dir \in Dirs :
        /\ \A xproc \in Ranks : views[xproc].size[2 - dir] = GlobalExtent(dir, plus)
        /\ UNION {Interval(views[xproc], dir) : xproc \in Ranks}
              = 0 .. (GlobalExtent(dir, plus) - 1)
        /\ \A xproc \in Ranks, other \in Ranks :
              IF xproc[dir + 1] = other[dir + 1]
              THEN Interval(views[xproc], dir) = Interval(views[other], dir)
              ELSE Interval(views[xproc], dir) \cap Interval(views[other], dir) = {}

\* C21: in structured-grid output, along each active direction the last subdomain
\* holds np_int + 1 nodes and the others np_int, so that the node subarrays of the
\* processes are pairwise disjoint and cover the global node array of np_int + 1
\* nodes per active direction; the cell subarrays tile the global cell array.
C21_SubarraysTile ==
    /\ (StructuredGrid /\ \A xproc \in Ranks : vpc[xproc] >= 0) =>
          /\ \A xproc \in Ranks : \A d \in 0 .. (DIMENSIONS - 1) :
                nodeView[xproc].subsize[2 - d]
                    = np_int[d] + (IF xproc[d + 1] = nproc[d] - 1 THEN 1 ELSE 0)
          /\ Tiles(nodeView, 1)
    /\ (WITH_MPI /\ \A xproc \in Ranks : vpc[xproc] >= 0) => Tiles(view, 0)

\* two subdomains along x2 of a two-dimensional structured grid: the second holds
\* one node more along x2 than the first, and both hold np_int + 1 nodes along x1
C21_Witness ==
    /\ WITH_MPI /\ StructuredGrid /\ DIMENSIONS = 2
    /\ nproc = [d \in Dirs |-> IF d = JDIR THEN 2 ELSE 1]
    /\ \A xproc \in Ranks : vpc[xproc] >= 0
    /\ nodeView[<<0, 0, 0>>].subsize[1] = np_int[JDIR]
    /\ nodeView[<<0, 1, 0>>].subsize[1] = np_int[JDIR] + 1
    /\ nodeView[<<0, 1, 0>>].start[1] = np_int[JDIR]
    /\ nodeView[<<0, 0, 0>>].subsize[2] = np_int[IDIR] + 1

\* the bytes the processes of S wrote in call k of Write number w
RECURSIVE BytesOf(_, _, _)
BytesOf(S, w, k) ==
    LET With(q) == vlog[q][w].calls[k].bytes + BytesOf(S \ {q}, w, k)
    IN  IF S = {} THEN 0 ELSE With(CHOOSE q \in S : TRUE)

\* the offset of process xproc before call k of Write number w
OffsetBefore(xproc, w, k) ==
    IF k = 1 THEN 0 ELSE vlog[xproc][w].calls[k - 1].offset

\* C24: with MPI, after every call of WriteHeaderString, WriteHeaderFloat,
\* WriteHeaderNodes and WriteScalar of a Write (the latest Write of the process, of
\* number w) the processes hold the same offset,
\* which is the number of bytes all of them together have written to the file; the
\* offset starts from 0 in each Write, and the file number grows by one per Write.
C24_OffsetsAgree ==
    WITH_MPI =>
        /\ \A xproc \in Ranks, other \in Ranks :
              \A w \in {Len(vlog[xproc])} \ {0} :
                  \A k \in 1 .. Len(vlog[xproc][w].calls) :
                      (w <= Len(vlog[other]) /\ k <= Len(vlog[other][w].calls)) =>
                          vlog[xproc][w].calls[k].offset = vlog[other][w].calls[k].offset
        /\ \A xproc \in Ranks :
              \A w \in {Len(vlog[xproc])} \ {0} :
                  \A k \in 1 .. Len(vlog[xproc][w].calls) :
                      (\A q \in Ranks : w <= Len(vlog[q]) /\ k <= Len(vlog[q][w].calls)) =>
                          vlog[xproc][w].calls[k].offset
                              = OffsetBefore(xproc, w, k) + BytesOf(Ranks, w, k)
        /\ \A xproc \in Ranks :
              vpc[xproc] >= 1 =>
                  offset[xproc]
                      = OffsetBefore(xproc, Len(vlog[xproc]),
                                     Len(vlog[xproc][Len(vlog[xproc])].calls) + 1)
        /\ \A xproc \in Ranks :
              /\ \A w \in 2 .. Len(vlog[xproc]) :
                    vlog[xproc][w].file = vlog[xproc][w - 1].file + 1
              /\ vlog[xproc] # <<>> =>
                    vtkFileNumber[xproc]
                        = vlog[xproc][Len(vlog[xproc])].file
                              + (IF vpc[xproc] >= 1 THEN 0 ELSE 1)

\* two processes along x1 of a structured grid have written two files: the second
\* process wrote no byte of the first header and its nodes after it, and both hold
\* the same offset, the size of the file
C24_Witness ==
    /\ WITH_MPI /\ StructuredGrid
    /\ nproc = [d \in Dirs |-> IF d = IDIR THEN 2 ELSE 1]
    /\ \A xproc \in Ranks : vpc[xproc] = 0 /\ vtkFileNumber[xproc] = 2
    /\ vlog[<<1, 0, 0>>][2].calls[1].bytes = 0
    /\ vlog[<<0, 0, 0>>][2].calls[1].bytes > 0
    /\ vlog[<<1, 0, 0>>][2].calls[3].call = "WriteHeaderNodes"
    /\ vlog[<<1, 0, 0>>][2].calls[3].bytes > vlog[<<0, 0, 0>>][2].calls[3].bytes
    /\ offset[<<1, 0, 0>>] = offset[<<0, 0, 0>>]
    /\ offset[<<0, 0, 0>>] > 0
====
